---- MODULE Spec2Model ----
(***************************************************************************)
(* ROCED control plane: the Machine Registry (Core/MachineRegistry.py),    *)
(* the Slurm Integration Adapter's reconcile pass and event handler        *)
(* (IntegrationAdapter/SlurmIntegrationAdapter.py) and the Site Broker     *)
(* (Core/Broker.py).                                                       *)
(*                                                                         *)
(* Python values are represented as follows.  A dict with optional keys is *)
(* a record whose fields hold a sentinel when the key is absent (None,     *)
(* NoTime, NoIp, -1, <<>>).  A str is a sequence of one-character        *)
(* strings where the code takes it apart (IP addresses, host names), and a *)
(* plain TLA+ string where it is only compared.  A datetime is the number  *)
(* of seconds since the start of the run; str() of a datetime or timedelta *)
(* is the record [str |-> seconds].  A float load is the pair              *)
(* <<numerator, denominator>> of the division that produced it.            *)
(***************************************************************************)
EXTENDS Integers, Sequences, FiniteSets, TLC

VARIABLES
    machines,       \* MachineRegistry.machines: id -> machine record
    events,         \* events delivered to the listeners by the last operation
    now,            \* datetime.datetime.now()
    ticks,          \* number of clock advances so far
    lastOp,         \* the last operation called, with its arguments
    broker,         \* StupidBroker: _maxInstances, shutdownDelay, delayedShutdownTime
    machineTypes,   \* the demand handed to decide: type -> MachineStatus
    siteInfo,       \* the list of SiteInformation handed to decide
    typeOrder,      \* the order in which the dict machinesToSpawn yields its keys
    siteOrders,     \* what the last decide returned
    arrayJob,       \* an array_task_str and what get_job_array_count made of it
    reqAdapter,     \* SlurmRequirementAdapter: the queue, _curRequirement, result
    snapshot,       \* MachineRegistryLogger: the two files, the last dump and load
    heard,          \* the last operation's deliveries, listener by listener
    slurmDeadline,  \* the adapter's config value slurm_deadline, in minutes
    desired         \* history: type -> the time since which every decide wanted it shrunk

regVars == <<machines, events, now, ticks, lastOp, heard, slurmDeadline>>

brokerVars == <<broker, machineTypes, siteInfo, typeOrder, siteOrders, desired>>

reqVars == <<arrayJob, reqAdapter>>

logVars == <<snapshot>>

(***************************************************************************)
(* Bounds of the model.                                                    *)
(***************************************************************************)
\* size of the registry: its records plus their status_change_history entries
MaxSize == 5
\* number of clock advances in a run
MaxTicks == 1

(***************************************************************************)
(* Inputs.                                                                 *)
(***************************************************************************)
Ids == {"m1", "m2"}
\* the clock advances by a little more than slurm_deadline
TickSteps == {61}
\* the address the cloud gives each machine: "10.7" and "10.8" as character
\* sequences
HostIp == [id \in Ids |-> IF id = "m1" THEN <<"1", "0", ".", "7">>
                                      ELSE <<"1", "0", ".", "8">>]

None == "None"
NoTime == -1
NoIp == <<>>

(***************************************************************************)
(* MachineRegistry constants.                                              *)
(***************************************************************************)
statusBooting == "booting"
statusUp == "up"
statusIntegrating == "integrating"
statusWorking == "working"
statusPendingDisintegration == "pending-disintegration"
statusDisintegrating == "disintegrating"
statusDisintegrated == "disintegrated"
statusShutdown == "down"
statusDown == "down"

Statuses == {statusBooting, statusUp, statusIntegrating, statusWorking,
             statusPendingDisintegration, statusDisintegrating,
             statusDisintegrated, statusShutdown, statusDown}

(***************************************************************************)
(* SlurmIntegrationAdapter constants and configuration.                    *)
(***************************************************************************)
slurmStatusAllocated == "allocated"
slurmStatusIdle == "idle"
slurmStatusDraining == "draining"
slurmStatusDrained == "drained"

\* config key site_name
siteName == "slurm"
\* config key slurm_deadline, in minutes
configSlurmDeadline == 1

Sites == {siteName, "other"}

\* the statuses callers outside the adapter write
ExternalStatuses == {statusUp, statusWorking, statusPendingDisintegration}

(***************************************************************************)
(* str(datetime) and str(timedelta): injective renderings.                 *)
(***************************************************************************)
StrOf(t) == [str |-> t]

(***************************************************************************)
(* Events.                                                                 *)
(***************************************************************************)
NewMachineEvent(id) == [type |-> "NewMachineEvent", id |-> id]

MachineRemovedEvent(id) == [type |-> "MachineRemovedEvent", id |-> id]

StatusChangedEvent(id, oldStatus, newStatus) ==
    [type |-> "StatusChangedEvent", id |-> id,
     oldStatus |-> oldStatus, newStatus |-> newStatus]

(***************************************************************************)
(* A world W is the registry together with the log of deliveries:          *)
(* [machines |-> id -> record, events |-> sequence of deliveries].  A      *)
(* delivery is the event and what the listener can read in the registry at *)
(* that moment (the record of the event's machine, None when it has none); *)
(* `events` holds the deliveries to the integration adapter and `heard`    *)
(* the deliveries to every listener, in the order in which they are made.  *)
(***************************************************************************)
EmptyMachine ==
    [status |-> None,
     status_last_update |-> NoTime,
     state_change_history |-> <<>>,
     site |-> None,
     machine_type |-> None,
     host_ip |-> NoIp,
     slurm_slot_status |-> <<>>,
     machine_cores |-> -1,
     machine_load |-> <<-1, 1>>]

Put(f, k, v) == [x \in (DOMAIN f) \cup {k} |-> IF x = k THEN v ELSE f[x]]

Pop(f, k) == [x \in (DOMAIN f) \ {k} |-> f[x]]

getMachines(ms, site, status, machineType) ==
    [k \in {x \in DOMAIN ms :
                /\ (site = None \/ ms[x].site = site)
                /\ (status = None \/ ms[x].status = status)
                /\ (machineType = None \/ ms[x].machine_type = machineType)}
        |-> ms[k]]

Deliver(W, evt) ==
    [W EXCEPT !.events = Append(@,
        [evt |-> evt,
         seen |-> IF evt.id \in DOMAIN W.machines THEN W.machines[evt.id] ELSE None])]

\* the listeners of the registry in the order of their registration: the
\* integration adapter, and a site adapter registered before and one after it
Listeners == <<"site adapter 1", "SlurmIntegrationAdapter", "site adapter 2">>

RECURSIVE updateMachineStatus(_, _, _, _)
RECURSIVE notify(_, _, _, _)

\* onEvent reacting to the status booting instead of up
onEvent_OnBooting(W, evt, t) ==
    IF /\ evt.type = "StatusChangedEvent"
       /\ evt.newStatus = statusBooting
       /\ W.machines[evt.id].site = siteName
    THEN updateMachineStatus(W, evt.id, statusIntegrating, t)
    ELSE W

\* onEvent without the test of the machine's site
onEvent_AnySite(W, evt, t) ==
    IF /\ evt.type = "StatusChangedEvent"
       /\ evt.newStatus = statusUp
    THEN updateMachineStatus(W, evt.id, statusIntegrating, t)
    ELSE W

\* SlurmIntegrationAdapter.onEvent
onEvent(W, evt, t) ==
    IF /\ evt.type = "StatusChangedEvent"
       /\ evt.newStatus = statusUp
       /\ W.machines[evt.id].site = siteName
    THEN updateMachineStatus(W, evt.id, statusIntegrating, t)
    ELSE W

\* EventPublisher.publishEvent from listener i on: each listener's onEvent is
\* called in turn, and returns before the next listener is called
notify(W, evt, t, i) ==
    IF i > Len(Listeners) THEN W
    ELSE LET W1 == [W EXCEPT !.heard = Append(@, [to |-> Listeners[i], evt |-> evt])]
         IN notify(IF Listeners[i] = "SlurmIntegrationAdapter"
                   THEN onEvent(Deliver(W1, evt), evt, t)
                   ELSE W1,
                   evt, t, i + 1)

\* self.publishEvent(evt)
publishEvent(W, evt, t) == notify(W, evt, t, 1)

HistoryEntry(oldStatus, newStatus, newTime, diffTime) ==
    [old_status |-> oldStatus, new_status |-> newStatus,
     timestamp |-> StrOf(newTime), time_diff |-> StrOf(diffTime)]

\* StatusWrite appending the history entry without writing the status
StatusWrite_HistoryOnly(m, newStatus, newTime) ==
    [m EXCEPT !.status_last_update = newTime,
              !.state_change_history =
                  Append(@, HistoryEntry(m.status, newStatus, newTime,
                      newTime - (IF m.status_last_update # NoTime
                                 THEN m.status_last_update ELSE newTime))),
              !.site = IF @ = None THEN "site" ELSE @]

\* StatusWrite leaving status_last_update as it was
StatusWrite_StaleLastUpdate(m, newStatus, newTime) ==
    [m EXCEPT !.status = newStatus,
              !.state_change_history =
                  Append(@, HistoryEntry(m.status, newStatus, newTime,
                      newTime - (IF m.status_last_update # NoTime
                                 THEN m.status_last_update ELSE newTime))),
              !.site = IF @ = None THEN "site" ELSE @]

\* the writes of updateMachineStatus to the machine's record
StatusWrite(m, newStatus, newTime) ==
    LET oldTime == IF m.status_last_update # NoTime
                   THEN m.status_last_update ELSE newTime
        diffTime == newTime - oldTime
        oldStatus == m.status
    IN [m EXCEPT !.status = newStatus,
                 !.status_last_update = newTime,
                 !.state_change_history =
                     Append(@, HistoryEntry(oldStatus, newStatus, newTime, diffTime)),
                 !.site = IF @ = None THEN "site" ELSE @]

updateMachineStatus(W, id, newStatus, t) ==
    LET oldStatus == W.machines[id].status
        W1 == [W EXCEPT !.machines[id] = StatusWrite(@, newStatus, t)]
    IN publishEvent(W1, StatusChangedEvent(id, oldStatus, newStatus), t)

\* timedelta.seconds: the seconds of the difference, its days dropped
DaySeconds == 86400

calcLastStateChange(m, t) ==
    LET last == IF m.status_last_update # NoTime THEN m.status_last_update ELSE t
    IN (t - last) % DaySeconds

newMachine(W, id, t) ==
    publishEvent([W EXCEPT !.machines = Put(@, id, EmptyMachine)],
                 NewMachineEvent(id), t)

\* removeMachine dropping every record of the machine's site
removeMachine_DropSite(W, id, t) ==
    publishEvent([W EXCEPT !.machines =
                      [x \in {y \in DOMAIN @ : @[y].site # @[id].site} |-> @[x]]],
                 MachineRemovedEvent(id), t)

removeMachine(W, id, t) ==
    publishEvent([W EXCEPT !.machines = Pop(@, id)], MachineRemovedEvent(id), t)

(***************************************************************************)
(* SlurmIntegrationAdapter: the batch system's view.                       *)
(***************************************************************************)
\* config key slurm_partition
configSlurmPartition == "roced"

getSlurmHostname(ip) ==
    <<"h", "o", "s", "t", "-">> \o
        [i \in 1..Len(ip) |-> IF ip[i] = "." THEN "-" ELSE ip[i]]

Hostnames == {getSlurmHostname(ip) : ip \in {HostIp[id] : id \in Ids}}

\* pyslurm.job().get(): the jobs the queue may hold
JobPool ==
    {[partition |-> configSlurmPartition, nodes |-> h] : h \in Hostnames}
    \cup {[partition |-> configSlurmPartition, nodes |-> <<>>]}
    \cup {[partition |-> "other", nodes |-> h] : h \in Hostnames}

\* pyslurm.node().get(): what a node may report; state is the set of the
\* words its state string contains
NodeInfos ==
    {[cpus |-> 2, alloc_cpus |-> 0, state |-> {"IDLE"}],
     [cpus |-> 2, alloc_cpus |-> 1, state |-> {"MIXED"}],
     [cpus |-> 2, alloc_cpus |-> 1, state |-> {"MIXED", "DRAINING"}],
     [cpus |-> 2, alloc_cpus |-> 0, state |-> {"IDLE", "DRAINED"}],
     [cpus |-> 2, alloc_cpus |-> 0, state |-> {"DOWN"}]}

\* one poll of the batch system: either fetch may raise ValueError
Observations ==
    [jobsFail : BOOLEAN, jobs : SUBSET JobPool,
     nodesFail : BOOLEAN, nodes : [Hostnames -> NodeInfos]]

\* the loop over range(totalCPUs), n iterations left
RECURSIVE NodeSlots(_, _, _, _)
NodeSlots(n, allocatedCPUs, idleCPUs, state) ==
    IF n = 0 THEN <<>>
    ELSE IF allocatedCPUs > 0
         THEN <<<<slurmStatusAllocated, None>>>>
                  \o NodeSlots(n - 1, allocatedCPUs - 1, idleCPUs, state)
    ELSE IF idleCPUs > 0
         THEN <<<<slurmStatusIdle, None>>>>
                  \o NodeSlots(n - 1, allocatedCPUs, idleCPUs - 1, state)
    ELSE IF "DRAINING" \in state
         THEN <<<<slurmStatusDraining, None>>>>
                  \o NodeSlots(n - 1, allocatedCPUs, idleCPUs, state)
    ELSE IF "DRAINED" \in state
         THEN <<<<slurmStatusDrained, None>>>>
                  \o NodeSlots(n - 1, allocatedCPUs, idleCPUs, state)
    ELSE NodeSlots(n - 1, allocatedCPUs, idleCPUs, state)

\* a value of the slurm_machines variable of manage: None, or the dict
\* host name -> list of [state, activity]
NoneList == [none |-> TRUE, nodes |-> <<>>]

NodeList(d) == [none |-> FALSE, nodes |-> d]

\* SlurmIntegrationAdapter.slurmList, without the None wrapper
slurmList(obs) ==
    IF obs.jobsFail \/ obs.nodesFail THEN <<>>
    ELSE
    LET jobs == {j \in obs.jobs : j.partition = configSlurmPartition}
        node_list == {j.nodes : j \in jobs} \ {<<>>}
        slots(h) == LET node_info == obs.nodes[h]
                        totalCPUs == node_info.cpus
                        allocatedCPUs == node_info.alloc_cpus
                        idleCPUs == totalCPUs - allocatedCPUs
                    IN NodeSlots(totalCPUs, allocatedCPUs, idleCPUs, node_info.state)
    IN [h \in {x \in node_list : /\ "DOWN" \notin obs.nodes[x].state
                                 /\ slots(x) # <<>>} |-> slots(h)]

\* the values self.slurmList can take
SlurmLists == {NodeList(slurmList(obs)) : obs \in Observations}

(***************************************************************************)
(* SlurmIntegrationAdapter: load, drain status and the reconcile pass.     *)
(***************************************************************************)
\* the load counts the idle slots
InAllocated_Idle(x) == x = slurmStatusIdle

\* `x in "allocated"` for the slot states slurmList produces
InAllocated(x) == x = slurmStatusAllocated

\* the loop of calcMachineLoad from slot index `slot` on
RECURSIVE LoadLoop(_, _, _, _)
LoadLoop(m, slot, cores_claimed, t) ==
    IF slot > Len(m.slurm_slot_status) THEN m
    ELSE IF InAllocated(m.slurm_slot_status[slot][1])
         THEN LoadLoop([m EXCEPT !.status_last_update = t,
                                 !.machine_load =
                                     <<cores_claimed + 1, Len(m.slurm_slot_status)>>],
                       slot + 1, cores_claimed + 1, t)
    ELSE LoadLoop(m, slot + 1, cores_claimed, t)

\* the load of the pass before is not reset
calcMachineLoad_NoReset(m, t) == LoadLoop(m, 1, 0, t)

\* SlurmIntegrationAdapter.calcMachineLoad; a load is a pair <<p, q>> for p / q
calcMachineLoad(m, t) == LoadLoop([m EXCEPT !.machine_load = <<0, 1>>], 1, 0, t)

\* <<nDrainedSlots, statusDraining>>; a record without slots raises KeyError,
\* which is caught
calcDrainStatus(m) ==
    LET drained == {i \in 1..Len(m.slurm_slot_status) :
                        m.slurm_slot_status[i][1] \in
                            {slurmStatusDraining, slurmStatusDrained}}
    IN <<Cardinality(drained), drained # {}>>

slurm_timeout == slurmDeadline * 60

\* manageMachine testing the deadline before the node list
manageMachine_TimeoutFirst(W, mid, slurm_machines, t) ==
    LET host == getSlurmHostname(W.machines[mid].host_ip)
        present == host \in DOMAIN slurm_machines
        W1 == IF W.machines[mid].status = statusIntegrating
              THEN IF calcLastStateChange(W.machines[mid], t) > slurm_timeout
                   THEN updateMachineStatus(W, mid, statusDisintegrated, t)
                   ELSE IF present
                        THEN LET U == updateMachineStatus(W, mid, statusWorking, t)
                             IN [U EXCEPT
                                   !.machines[mid].slurm_slot_status = slurm_machines[host],
                                   !.machines[mid].machine_cores = Len(slurm_machines[host])]
                        ELSE W
              ELSE W
        W2 == IF W1.machines[mid].status = statusWorking /\ present
              THEN LET U == [W1 EXCEPT !.machines[mid] =
                                calcMachineLoad(
                                    [@ EXCEPT !.slurm_slot_status = slurm_machines[host]], t)]
                   IN IF calcDrainStatus(U.machines[mid])[2]
                      THEN updateMachineStatus(U, mid, statusPendingDisintegration, t)
                      ELSE U
              ELSE W1
        W3 == IF W2.machines[mid].status = statusPendingDisintegration /\ ~present
              THEN updateMachineStatus(W2, mid, statusDisintegrating, t)
              ELSE W2
        W4 == IF W3.machines[mid].status = statusDisintegrating
              THEN updateMachineStatus(W3, mid, statusDisintegrated, t)
              ELSE W3
    IN W4

\* manageMachine with the test its last branch once had: the machine is gone or late
manageMachine_GoneOrTimeout(W, mid, slurm_machines, t) ==
    LET host == getSlurmHostname(W.machines[mid].host_ip)
        present == host \in DOMAIN slurm_machines
        W1 == IF W.machines[mid].status = statusIntegrating
              THEN IF present
                   THEN LET U == updateMachineStatus(W, mid, statusWorking, t)
                        IN [U EXCEPT
                              !.machines[mid].slurm_slot_status = slurm_machines[host],
                              !.machines[mid].machine_cores = Len(slurm_machines[host])]
                   ELSE IF calcLastStateChange(W.machines[mid], t) > slurm_timeout
                        THEN updateMachineStatus(W, mid, statusDisintegrated, t)
                        ELSE W
              ELSE W
        W2 == IF W1.machines[mid].status = statusWorking /\ present
              THEN LET U == [W1 EXCEPT !.machines[mid] =
                                calcMachineLoad(
                                    [@ EXCEPT !.slurm_slot_status = slurm_machines[host]], t)]
                   IN IF calcDrainStatus(U.machines[mid])[2]
                      THEN updateMachineStatus(U, mid, statusPendingDisintegration, t)
                      ELSE U
              ELSE W1
        W3 == IF W2.machines[mid].status = statusPendingDisintegration /\ ~present
              THEN updateMachineStatus(W2, mid, statusDisintegrating, t)
              ELSE W2
        W4 == IF /\ W3.machines[mid].status = statusDisintegrating
                 /\ \/ ~present
                    \/ calcLastStateChange(W3.machines[mid], t) > slurm_timeout
              THEN updateMachineStatus(W3, mid, statusDisintegrated, t)
              ELSE W3
    IN W4

\* manageMachine testing the status the machine had when the loop reached it
manageMachine_StatusReadOnce(W, mid, slurm_machines, t) ==
    LET host == getSlurmHostname(W.machines[mid].host_ip)
        present == host \in DOMAIN slurm_machines
        W1 == IF W.machines[mid].status = statusIntegrating
              THEN IF present
                   THEN LET U == updateMachineStatus(W, mid, statusWorking, t)
                        IN [U EXCEPT
                              !.machines[mid].slurm_slot_status = slurm_machines[host],
                              !.machines[mid].machine_cores = Len(slurm_machines[host])]
                   ELSE IF calcLastStateChange(W.machines[mid], t) > slurm_timeout
                        THEN updateMachineStatus(W, mid, statusDisintegrated, t)
                        ELSE W
              ELSE W
        W2 == IF W1.machines[mid].status = statusWorking /\ present
              THEN LET U == [W1 EXCEPT !.machines[mid] =
                                calcMachineLoad(
                                    [@ EXCEPT !.slurm_slot_status = slurm_machines[host]], t)]
                   IN IF calcDrainStatus(U.machines[mid])[2]
                      THEN updateMachineStatus(U, mid, statusPendingDisintegration, t)
                      ELSE U
              ELSE W1
        W3 == IF W2.machines[mid].status = statusPendingDisintegration /\ ~present
              THEN updateMachineStatus(W2, mid, statusDisintegrating, t)
              ELSE W2
        W4 == IF W.machines[mid].status = statusDisintegrating
              THEN updateMachineStatus(W3, mid, statusDisintegrated, t)
              ELSE W3
    IN W4

\* manageMachine treating a working machine that left the node list as gone
manageMachine_AbsentDisintegrates(W, mid, slurm_machines, t) ==
    LET host == getSlurmHostname(W.machines[mid].host_ip)
        present == host \in DOMAIN slurm_machines
        W1 == IF W.machines[mid].status = statusIntegrating
              THEN IF present
                   THEN LET U == updateMachineStatus(W, mid, statusWorking, t)
                        IN [U EXCEPT
                              !.machines[mid].slurm_slot_status = slurm_machines[host],
                              !.machines[mid].machine_cores = Len(slurm_machines[host])]
                   ELSE IF calcLastStateChange(W.machines[mid], t) > slurm_timeout
                        THEN updateMachineStatus(W, mid, statusDisintegrated, t)
                        ELSE W
              ELSE W
        W2 == IF W1.machines[mid].status = statusWorking /\ present
              THEN LET U == [W1 EXCEPT !.machines[mid] =
                                calcMachineLoad(
                                    [@ EXCEPT !.slurm_slot_status = slurm_machines[host]], t)]
                   IN IF calcDrainStatus(U.machines[mid])[2]
                      THEN updateMachineStatus(U, mid, statusPendingDisintegration, t)
                      ELSE U
              ELSE IF W1.machines[mid].status = statusWorking
                   THEN updateMachineStatus(W1, mid, statusDisintegrating, t)
                   ELSE W1
        W3 == IF W2.machines[mid].status = statusPendingDisintegration /\ ~present
              THEN updateMachineStatus(W2, mid, statusDisintegrating, t)
              ELSE W2
        W4 == IF W3.machines[mid].status = statusDisintegrating
              THEN updateMachineStatus(W3, mid, statusDisintegrated, t)
              ELSE W3
    IN W4

\* manageMachine putting a listed machine that is pending disintegration back to work
manageMachine_PendingReEnabled(W, mid, slurm_machines, t) ==
    LET host == getSlurmHostname(W.machines[mid].host_ip)
        present == host \in DOMAIN slurm_machines
        W1 == IF W.machines[mid].status = statusIntegrating
              THEN IF present
                   THEN LET U == updateMachineStatus(W, mid, statusWorking, t)
                        IN [U EXCEPT
                              !.machines[mid].slurm_slot_status = slurm_machines[host],
                              !.machines[mid].machine_cores = Len(slurm_machines[host])]
                   ELSE IF calcLastStateChange(W.machines[mid], t) > slurm_timeout
                        THEN updateMachineStatus(W, mid, statusDisintegrated, t)
                        ELSE W
              ELSE W
        W2 == IF W1.machines[mid].status = statusWorking /\ present
              THEN LET U == [W1 EXCEPT !.machines[mid] =
                                calcMachineLoad(
                                    [@ EXCEPT !.slurm_slot_status = slurm_machines[host]], t)]
                   IN IF calcDrainStatus(U.machines[mid])[2]
                      THEN updateMachineStatus(U, mid, statusPendingDisintegration, t)
                      ELSE U
              ELSE W1
        W3 == IF W2.machines[mid].status = statusPendingDisintegration /\ ~present
              THEN updateMachineStatus(W2, mid, statusDisintegrating, t)
              ELSE IF W2.machines[mid].status = statusPendingDisintegration
                   THEN updateMachineStatus(W2, mid, statusWorking, t)
                   ELSE W2
        W4 == IF W3.machines[mid].status = statusDisintegrating
              THEN updateMachineStatus(W3, mid, statusDisintegrated, t)
              ELSE W3
    IN W4

\* the body of manage's loop for machine mid; slurm_machines is the dict
manageMachine(W, mid, slurm_machines, t) ==
    LET host == getSlurmHostname(W.machines[mid].host_ip)
        present == host \in DOMAIN slurm_machines
        W1 == IF W.machines[mid].status = statusIntegrating
              THEN IF present
                   THEN LET U == updateMachineStatus(W, mid, statusWorking, t)
                        IN [U EXCEPT
                              !.machines[mid].slurm_slot_status = slurm_machines[host],
                              !.machines[mid].machine_cores = Len(slurm_machines[host])]
                   ELSE IF calcLastStateChange(W.machines[mid], t) > slurm_timeout
                        THEN updateMachineStatus(W, mid, statusDisintegrated, t)
                        ELSE W
              ELSE W
        W2 == IF W1.machines[mid].status = statusWorking /\ present
              THEN LET U == [W1 EXCEPT !.machines[mid] =
                                calcMachineLoad(
                                    [@ EXCEPT !.slurm_slot_status = slurm_machines[host]], t)]
                   IN IF calcDrainStatus(U.machines[mid])[2]
                      THEN updateMachineStatus(U, mid, statusPendingDisintegration, t)
                      ELSE U
              ELSE W1
        W3 == IF W2.machines[mid].status = statusPendingDisintegration /\ ~present
              THEN updateMachineStatus(W2, mid, statusDisintegrating, t)
              ELSE W2
        W4 == IF W3.machines[mid].status = statusDisintegrating
              THEN updateMachineStatus(W3, mid, statusDisintegrated, t)
              ELSE W3
    IN W4

\* manage's loop over the machines of the site, in the order the dict yields them
RECURSIVE manageLoop(_, _, _, _)
manageLoop(W, order, slurm_machines, t) ==
    IF order = <<>> THEN W
    ELSE manageLoop(manageMachine(W, Head(order), slurm_machines, t),
                    Tail(order), slurm_machines, t)

\* SlurmIntegrationAdapter.manage; slurm_machines is None or a node list
manage(W, order, slurm_machines, t) ==
    IF slurm_machines.none
          \/ DOMAIN getMachines(W.machines, siteName, None, None) = {}
    THEN W
    ELSE manageLoop(W, order, slurm_machines.nodes, t)

(***************************************************************************)
(* The registry and the adapter as a state machine.  Every operation runs  *)
(* to completion on the single scheduler thread, at the clock value `now`. *)
(***************************************************************************)
World == [machines |-> machines, events |-> <<>>, heard |-> <<>>]

\* the registry after an operation, within the bound on its size: the
\* machines and the entries of their histories
Commit(W) ==
    LET RECURSIVE TotalHist(_)
        TotalHist(S) ==
            IF S = {} THEN 0
            ELSE LET x == CHOOSE y \in S : TRUE
                 IN Len(W.machines[x].state_change_history) + TotalHist(S \ {x})
    IN /\ TotalHist(DOMAIN W.machines) + Cardinality(DOMAIN W.machines) <= MaxSize
       /\ machines' = W.machines
       /\ events' = W.events
       /\ heard' = W.heard

RECURSIVE Perms(_)
Perms(S) == IF S = {} THEN {<<>>}
            ELSE UNION {{<<x>> \o p : p \in Perms(S \ {x})} : x \in S}

Op(name, id, arg) == [op |-> name, id |-> id, arg |-> arg]

\* newMachine(id): the id given by the caller or, when omitted,
\* str(uuid.uuid4()), an id nobody holds
NewMachine(id) ==
    /\ Commit(newMachine(World, id, now))
    /\ lastOp' = Op("newMachine", id, None)
    /\ UNCHANGED <<now, ticks, slurmDeadline>>

\* removeMachine(id); for an absent id machines.pop raises KeyError before
\* anything is written or published
RemoveMachine(id) ==
    /\ id \in DOMAIN machines
    /\ Commit(removeMachine(World, id, now))
    /\ lastOp' = Op("removeMachine", id, None)
    /\ UNCHANGED <<now, ticks, slurmDeadline>>

\* updateMachineStatus(id, newStatus) called from outside the adapter; for an
\* absent id machines[id] raises KeyError before anything is written
UpdateMachineStatus(id, newStatus) ==
    /\ id \in DOMAIN machines
    /\ Commit(updateMachineStatus(World, id, newStatus, now))
    /\ lastOp' = Op("updateMachineStatus", id, newStatus)
    /\ UNCHANGED <<now, ticks, slurmDeadline>>

\* a site adapter boots a machine: newMachine(), the site and address of the
\* new record, and its first status
SiteSpawn(site) ==
    \E id \in Ids \ DOMAIN machines :
        LET W1 == newMachine(World, id, now)
            W2 == [W1 EXCEPT !.machines[id].site = site,
                             !.machines[id].host_ip = HostIp[id]]
        IN /\ Commit(updateMachineStatus(W2, id, statusBooting, now))
           /\ lastOp' = Op("siteSpawn", id, None)
           /\ UNCHANGED <<now, ticks, slurmDeadline>>

\* one reconcile pass of the adapter, self.slurmList giving slurm_machines and
\* the dict of machines being walked in the given order
Manage ==
    \E slurm_machines \in SlurmLists :
        \E order \in Perms(DOMAIN getMachines(machines, siteName, None, None)) :
            /\ Commit(manage(World, order, slurm_machines, now))
            /\ lastOp' = Op("manage", None, None)
            /\ UNCHANGED <<now, ticks, slurmDeadline>>

\* time passes between two operations
Tick ==
    \E d \in TickSteps :
        /\ ticks < MaxTicks
        /\ now' = now + d
        /\ ticks' = ticks + 1
        /\ lastOp' = Op("tick", None, None)
        /\ events' = <<>>
        /\ heard' = <<>>
        /\ UNCHANGED <<machines, slurmDeadline>>

(***************************************************************************)
(* StupidBroker (Core/Broker.py).                                          *)
(***************************************************************************)
\* MachineStatus.required is None
NoRequired == -1

MachineTypeNames == {"T", "U"}

\* (required, actual) of a machine type: grow, shrink, failure, steady
Demands == {<<3, 0>>, <<1, 4>>, <<NoRequired, 2>>, <<2, 2>>}

MachineStatus(d) == [required |-> d[1], actual |-> d[2]]

DemandMaps ==
    UNION {[names -> {MachineStatus(d) : d \in Demands}] :
               names \in SUBSET MachineTypeNames}

SiteInformation(name, cost, types) ==
    [siteName |-> name, cost |-> cost, supportedMachineTypes |-> types]

\* the site lists a run may be configured with
SiteLists ==
    {<<SiteInformation("A", 1, {"T", "U"}), SiteInformation("B", 3, {"T", "U"})>>,
     <<SiteInformation("B", 3, {"T"}), SiteInformation("A", 1, {"T"})>>,
     <<SiteInformation("A", 1, {"T"}), SiteInformation("C", 1, {"T", "U"}),
       SiteInformation("B", 3, {"T"})>>,
     <<SiteInformation("B", 3, {"U"}), SiteInformation("C", 3, {"T", "U"}),
       SiteInformation("A", 1, {"U"})>>,
     <<SiteInformation("A", 1, {"U"})>>,
     <<>>}

Min(a, b) == IF a < b THEN a ELSE b

\* sorted(siteInfo, key=attrgetter("cost"), reverse=...): a stable sort, which
\* keeps sites of equal cost in the order of siteInfo also when reversed
RECURSIVE InsertByCost(_, _, _)
InsertByCost(sorted, site, reverse) ==
    IF sorted = <<>> THEN <<site>>
    ELSE LET last == sorted[Len(sorted)]
             before == IF reverse THEN last.cost >= site.cost
                                  ELSE last.cost <= site.cost
         IN IF before THEN Append(sorted, site)
            ELSE Append(InsertByCost(SubSeq(sorted, 1, Len(sorted) - 1), site, reverse),
                        last)

RECURSIVE SortedByCost(_, _)
SortedByCost(sites, reverse) ==
    IF sites = <<>> THEN <<>>
    ELSE InsertByCost(SortedByCost(SubSeq(sites, 1, Len(sites) - 1), reverse),
                      sites[Len(sites)], reverse)

\* the spawn pass takes the sites in the order of the file they were read from
cheapFirst_Unsorted(sites) == sites

\* Spawn cheap sites first.
cheapFirst(sites) == SortedByCost(sites, FALSE)

\* Shutdown expensive sites first.
expensiveFirst(sites) == SortedByCost(sites, TRUE)

\* modSiteOrders creating the entry and leaving it at 0
modSiteOrders_NoIncrement(dict_, site, machineName, mod) ==
    IF mod = 0 THEN dict_
    ELSE LET d1 == IF site \in DOMAIN dict_ THEN dict_
                   ELSE Put(dict_, site, [m \in {machineName} |-> 0])
             d2 == IF machineName \in DOMAIN d1[site] THEN d1
                   ELSE [d1 EXCEPT ![site] = Put(@, machineName, 0)]
         IN d2

\* StupidBroker.modSiteOrders
modSiteOrders(dict_, site, machineName, mod) ==
    IF mod = 0 THEN dict_
    ELSE LET d1 == IF site \in DOMAIN dict_ THEN dict_
                   ELSE Put(dict_, site, [m \in {machineName} |-> 0])
             d2 == IF machineName \in DOMAIN d1[site] THEN d1
                   ELSE [d1 EXCEPT ![site] = Put(@, machineName, 0)]
         IN [d2 EXCEPT ![site][machineName] = @ + mod]

\* the first loop of decide: the per-type delta, capped by _maxInstances
Delta(mReq, maxInstances) ==
    LET delta == IF mReq.required # NoRequired THEN mReq.required - mReq.actual
                 ELSE 0
    IN Min(maxInstances - mReq.actual, delta)

\* the first loop's write to the demand: a None required becomes 0
Normalised(mt) ==
    [m \in DOMAIN mt |->
        IF mt[m].required # NoRequired THEN mt[m] ELSE [mt[m] EXCEPT !.required = 0]]

\* the spawn loop over the sites for one type: <<siteOrders, toSpawn>>
RECURSIVE SpawnSites(_, _, _, _)
SpawnSites(orders, mName, toSpawn, sites) ==
    IF sites = <<>> THEN <<orders, toSpawn>>
    ELSE LET site == Head(sites)
         IN IF toSpawn > 0 /\ mName \in site.supportedMachineTypes
            THEN SpawnSites(modSiteOrders(orders, site.siteName, mName, toSpawn),
                            mName, 0, Tail(sites))
            ELSE SpawnSites(orders, mName, toSpawn, Tail(sites))

\* the spawn loop over the types: <<siteOrders, toSpawn>>, toSpawn being the
\* value the loop variable holds when the loop ends
RECURSIVE SpawnTypes(_, _, _, _, _)
SpawnTypes(orders, toSpawn, order, machinesToSpawn, sites) ==
    IF order = <<>> THEN <<orders, toSpawn>>
    ELSE LET r == SpawnSites(orders, Head(order), machinesToSpawn[Head(order)],
                             sites)
         IN SpawnTypes(r[1], r[2], Tail(order), machinesToSpawn, sites)

\* the shutdown loop over the sites for one type:
\* <<siteOrders, delayedShutdownTime>>
RECURSIVE ShutdownSites(_, _, _, _, _, _, _)
ShutdownSites(orders, dst, mName, toSpawn, sites, shutdownDelay, t) ==
    IF sites = <<>> THEN <<orders, dst>>
    ELSE LET site == Head(sites)
         IN IF toSpawn < 0 /\ mName \in site.supportedMachineTypes
            THEN LET emit == modSiteOrders(orders, site.siteName, mName, toSpawn)
                     r == IF dst # NoTime
                          THEN IF t - dst > shutdownDelay
                               THEN <<emit, NoTime>>
                               ELSE <<orders, dst>>
                          ELSE IF shutdownDelay = 0
                               THEN <<emit, dst>>
                               ELSE <<orders, t>>
                 IN ShutdownSites(r[1], r[2], mName, 0, Tail(sites), shutdownDelay, t)
            ELSE ShutdownSites(orders, dst, mName, toSpawn, Tail(sites),
                               shutdownDelay, t)

RECURSIVE ShutdownTypes(_, _, _, _, _, _, _)
ShutdownTypes(orders, dst, order, machinesToSpawn, sites, shutdownDelay, t) ==
    IF order = <<>> THEN <<orders, dst>>
    ELSE LET r == ShutdownSites(orders, dst, Head(order),
                                machinesToSpawn[Head(order)], sites,
                                shutdownDelay, t)
         IN ShutdownTypes(r[1], r[2], Tail(order), machinesToSpawn, sites,
                          shutdownDelay, t)

\* StupidBroker.decide:
\* [raised, siteOrders, delayedShutdownTime, machineTypes after the call].
\* With no machine type the loop variable toSpawn is unbound when it is read
\* after the spawn loop, and decide raises.
decide(b, mt, sites, order, t) ==
    LET machinesToSpawn == [m \in DOMAIN mt |-> Delta(mt[m], b.maxInstances)]
        spawned == SpawnTypes(<<>>, 0, order, machinesToSpawn, cheapFirst(sites))
        shut == ShutdownTypes(spawned[1], b.delayedShutdownTime, order,
                              machinesToSpawn, expensiveFirst(sites),
                              b.shutdownDelay, t)
    IN IF order = <<>>
       THEN [raised |-> TRUE, siteOrders |-> <<>>,
             delayedShutdownTime |-> b.delayedShutdownTime,
             machineTypes |-> Normalised(mt)]
       ELSE IF spawned[2] < 0
       THEN [raised |-> FALSE, siteOrders |-> spawned[1],
             delayedShutdownTime |-> b.delayedShutdownTime,
             machineTypes |-> Normalised(mt)]
       ELSE [raised |-> FALSE, siteOrders |-> shut[1],
             delayedShutdownTime |-> shut[2],
             machineTypes |-> Normalised(mt)]

(***************************************************************************)
(* The broker as a state machine: the scheduler hands decide the demand of *)
(* the cycle; between cycles the demand changes and time passes.           *)
(***************************************************************************)
\* no decide has returned yet
NoOrders == [raised |-> FALSE, called |-> FALSE, siteOrders |-> <<>>,
             demand |-> <<>>]

\* one call of decide on the demand of this cycle
Decide ==
    LET r == decide(broker, machineTypes, siteInfo, typeOrder, now)
    IN /\ siteOrders = NoOrders
       /\ broker' = [broker EXCEPT !.delayedShutdownTime = r.delayedShutdownTime]
       /\ machineTypes' = r.machineTypes
       /\ siteOrders' = [raised |-> r.raised, called |-> TRUE,
                         siteOrders |-> r.siteOrders, demand |-> machineTypes]
       /\ desired' = [m \in MachineTypeNames |->
                         IF /\ m \in DOMAIN machineTypes
                            /\ Delta(machineTypes[m], broker.maxInstances) < 0
                         THEN IF desired[m] # NoTime THEN desired[m] ELSE now
                         ELSE NoTime]
       /\ UNCHANGED <<siteInfo, typeOrder, now, ticks>>

\* the scheduler builds the demand of the next cycle
NewDemand ==
    \E mt \in DemandMaps :
        \E order \in Perms(DOMAIN mt) :
            /\ siteOrders # NoOrders
            /\ machineTypes' = mt
            /\ typeOrder' = order
            /\ siteOrders' = NoOrders
            /\ UNCHANGED <<broker, siteInfo, desired, now, ticks>>

\* time passes between two cycles
BrokerTick ==
    \E d \in TickSteps :
        /\ ticks < MaxTicks
        /\ now' = now + d
        /\ ticks' = ticks + 1
        /\ UNCHANGED brokerVars

BrokerInit ==
    /\ broker \in [maxInstances : {1, 1000},     \* the constructor's max_instances
                   shutdownDelay : {0, 60},      \* and shutdown_delay (seconds)
                   delayedShutdownTime : {NoTime}]
    /\ machineTypes \in DemandMaps
    /\ typeOrder \in Perms(DOMAIN machineTypes)
    /\ siteInfo \in SiteLists
    /\ siteOrders = NoOrders
    /\ desired = [m \in MachineTypeNames |-> NoTime]

\* the broker of the registry's specification: built, never called
BrokerIdle ==
    /\ broker = [maxInstances |-> 1000, shutdownDelay |-> 0,
                 delayedShutdownTime |-> NoTime]
    /\ machineTypes = <<>>
    /\ typeOrder = <<>>
    /\ siteInfo = <<>>
    /\ siteOrders = NoOrders
    /\ desired = [m \in MachineTypeNames |-> NoTime]

(***************************************************************************)
(* SlurmRequirementAdapter: the number of jobs of a job array.             *)
(* Strings that are taken apart are sequences of characters.               *)
(***************************************************************************)
\* job['array_task_str'] of a job that is no job array
NoTaskStr == <<"None">>

Digits == {"0", "1", "2", "3", "4", "5", "6", "7", "8", "9"}

DigitValue(c) ==
    CASE c = "0" -> 0 [] c = "1" -> 1 [] c = "2" -> 2 [] c = "3" -> 3
      [] c = "4" -> 4 [] c = "5" -> 5 [] c = "6" -> 6 [] c = "7" -> 7
      [] c = "8" -> 8 [] c = "9" -> 9

\* c in str
Contains(str, c) == \E i \in 1..Len(str) : str[i] = c

\* str.split(c): the pieces between the occurrences of c, empty ones kept
RECURSIVE Split(_, _)
Split(str, c) ==
    IF ~Contains(str, c) THEN <<str>>
    ELSE LET i == CHOOSE k \in 1..Len(str) :
                      str[k] = c /\ \A j \in 1..(k - 1) : str[j] # c
         IN <<SubSeq(str, 1, i - 1)>> \o Split(SubSeq(str, i + 1, Len(str)), c)

\* int(str) raises ValueError unless str is a decimal numeral
IsInt(str) == str # <<>> /\ \A i \in 1..Len(str) : str[i] \in Digits

RECURSIVE IntOf(_)
IntOf(str) ==
    IF str = <<>> THEN 0
    ELSE 10 * IntOf(SubSeq(str, 1, Len(str) - 1)) + DigitValue(str[Len(str)])

Raised == [raised |-> TRUE, value |-> 0]

Returned(v) == [raised |-> FALSE, value |-> v]

\* the loop over job_array_str.split(","), total_count so far
RECURSIVE CountRanges(_, _)
CountRanges(ranges, total_count) ==
    IF ranges = <<>> THEN Returned(total_count)
    ELSE LET job_range == Head(ranges)
             parts == Split(job_range, "-")
         IN IF Contains(job_range, "-")
            THEN IF Len(parts) = 2 /\ IsInt(parts[1]) /\ IsInt(parts[2])
                 THEN CountRanges(Tail(ranges),
                                  total_count + IntOf(parts[2]) - IntOf(parts[1]) + 1)
                 ELSE Raised
            ELSE IF IsInt(job_range)
                 THEN CountRanges(Tail(ranges), total_count + IntOf(job_range))
                 ELSE Raised

\* SlurmRequirementAdapter.get_job_array_count
get_job_array_count(job_array_str) ==
    IF job_array_str = NoTaskStr THEN Returned(1)
    ELSE IF Contains(job_array_str, "%")
         THEN LET k == Split(job_array_str, "%")[2]
              IN IF IsInt(k) THEN Returned(IntOf(k)) ELSE Raised
    ELSE CountRanges(Split(job_array_str, ","), 0)

MaxStrLen == 3

\* the examples of the method's docstring, and every string of at most
\* MaxStrLen of the characters they are made of
ArrayStrings ==
    {<<"1", "-", "2", "0">>,
     <<"1", "-", "1", "0", ",", "1", "5", "-", "2", "0">>,
     <<"1", ",", "3", ",", "5">>,
     <<"1", "-", "7", "%", "3">>,
     <<"1", "-", "7", ",", "1", "0", "-", "1", "5", "%", "3">>,
     <<"1", ",", "3", ",", "5", ",", "7", "%", "3">>,
     NoTaskStr}
    \cup UNION {[1..n -> {"1", "3", "-", ",", "%"}] : n \in 0..MaxStrLen}

\* get_job_array_count(job['array_task_str']) is called on a pending job
CountArray ==
    /\ ~arrayJob.called
    /\ arrayJob' = [arrayJob EXCEPT !.called = TRUE,
                                    !.count = get_job_array_count(arrayJob.str)]

ArrayInit == arrayJob \in [str : ArrayStrings, called : {FALSE}, count : {Returned(0)}]

ArrayIdle == arrayJob = [str |-> NoTaskStr, called |-> FALSE, count |-> Returned(0)]

(***************************************************************************)
(* SlurmRequirementAdapter.requirement.                                    *)
(***************************************************************************)
\* the most jobs the queue holds
MaxJobs == 2

\* pyslurm.job().get(): the jobs the queue may hold; only a pending job
\* stands for a whole job array
QueueJobs ==
    LET \* job['state_reason'] and job['job_state'], as the sets of the words
        \* the code looks for that the string contains
        reasons == {{}, {"Dependency"}, {"PartitionTimeLimit"}}
        states == {{"RUNNING"}, {"CANCELLED"}, {"COMPLETED"}}
    IN [partition : {configSlurmPartition}, job_state : {{"PENDING"}},
        state_reason : reasons, pn_min_cpus : {1, 2},
        array_task_str : {NoTaskStr, <<"1", "-", "3">>, <<"3">>}]
       \cup [partition : {configSlurmPartition}, job_state : states,
             state_reason : reasons, pn_min_cpus : {1, 2},
             array_task_str : {NoTaskStr}]
       \cup [partition : {"other"}, job_state : {{"PENDING"}}, state_reason : {{}},
             pn_min_cpus : {2}, array_task_str : {NoTaskStr}]

Queues == UNION {[1..n -> QueueJobs] : n \in 0..MaxJobs}

\* a // b of Python, the floor of the quotient
FloorDiv(a, b) == IF b > 0 THEN a \div b ELSE (0 - a) \div (0 - b)

\* a requirement: None or a number of machines
NoRequirement == [none |-> TRUE, value |-> 0]

Machines(n) == [none |-> FALSE, value |-> n]

\* the loop over jobs.values(): required_cpus_total, or raised
RECURSIVE RequiredCpus(_, _)
RequiredCpus(jobs, required_cpus_total) ==
    IF jobs = <<>> THEN Returned(required_cpus_total)
    ELSE LET job == Head(jobs)
             job_array_count == get_job_array_count(job.array_task_str)
         IN IF "Dependency" \in job.state_reason
            THEN RequiredCpus(Tail(jobs), required_cpus_total)
            ELSE IF "PartitionTimeLimit" \in job.state_reason
            THEN RequiredCpus(Tail(jobs), required_cpus_total)
            ELSE IF "PENDING" \in job.job_state
            THEN IF job_array_count.raised THEN Raised
                 ELSE RequiredCpus(Tail(jobs),
                          required_cpus_total + job.pn_min_cpus * job_array_count.value)
            ELSE IF "RUNNING" \in job.job_state
            THEN RequiredCpus(Tail(jobs), required_cpus_total + job.pn_min_cpus)
            ELSE RequiredCpus(Tail(jobs), required_cpus_total)

\* the failed fetch forgets the requirement computed before
fetchFailed_ResetsValue(call) ==
    [call EXCEPT !.result = NoRequirement, !.curRequirement = Machines(0)]

\* except ValueError: return None
fetchFailed(call) == [call EXCEPT !.result = NoRequirement]

\* the cores are not negated for the division
n_cores_Positive(r) == r.cores

\* n_cores = - int(config machines[type]["cores"])
n_cores(r) == 0 - r.cores

\* SlurmRequirementAdapter.requirement: the adapter after the call
requirement(r, fetchFails) ==
    LET jobs == SelectSeq(r.queue, LAMBDA v : v.partition = configSlurmPartition)
        total == RequiredCpus(jobs, 0)
        machines_ == Machines(0 - FloorDiv(total.value, n_cores(r)))
        call == [r EXCEPT !.called = TRUE, !.fetchFailed = fetchFails,
                          !.raised = FALSE]
    IN IF fetchFails THEN fetchFailed(call)
       ELSE IF Len(jobs) = 0 THEN [call EXCEPT !.result = NoRequirement]
       ELSE IF total.raised THEN [call EXCEPT !.raised = TRUE]
       ELSE [call EXCEPT !.curRequirement = machines_, !.result = machines_]

\* one poll of the queue: pyslurm.job().get() returns the jobs or raises
Requirement ==
    \E fetchFails \in BOOLEAN :
        reqAdapter' = requirement(reqAdapter, fetchFails)

\* the adapter as RequirementAdapterBase builds it, in front of a queue
ReqAdapter(queue, cores) ==
    [queue |-> queue, cores |-> cores, curRequirement |-> NoRequirement,
     called |-> FALSE, fetchFailed |-> FALSE, raised |-> FALSE,
     result |-> NoRequirement]

\* every queue, for machine types of one and of two cores
ReqInit == reqAdapter \in {ReqAdapter(q, c) : q \in Queues, c \in {1, 2}}

ReqIdle == reqAdapter = ReqAdapter(<<>>, 1)

(***************************************************************************)
(* MachineRegistryLogger (Util/Logging.py): the registry's snapshot files. *)
(* Python values and JSON values are tagged; strings are sequences, of     *)
(* characters where the code takes them apart and of one word otherwise.   *)
(***************************************************************************)
PyNone == [t |-> "None"]

PyStr(str) == [t |-> "str", v |-> str]

PyDateTime(d) == [t |-> "datetime", v |-> d]

PyList(seq) == [t |-> "list", v |-> seq]

PyDict(f) == [t |-> "dict", v |-> f]

\* an exception on its way out of json.load
PyError(kind) == [t |-> "error", v |-> kind]

JNull == [j |-> "null"]

JString(str) == [j |-> "string", v |-> str]

JArray(seq) == [j |-> "array", v |-> seq]

JObject(f) == [j |-> "object", v |-> f]

\* "%0wd" % n
RECURSIVE Pad(_, _)
Pad(n, w) ==
    LET digits == <<"0", "1", "2", "3", "4", "5", "6", "7", "8", "9">>
    IN IF w = 0 THEN <<>> ELSE Pad(n \div 10, w - 1) \o <<digits[(n % 10) + 1]>>

\* the microseconds are left out of the format
strftime_Seconds(d) ==
    Pad(d.year, 4) \o <<"-">> \o Pad(d.month, 2) \o <<"-">> \o Pad(d.day, 2)
        \o <<" ">> \o Pad(d.hour, 2) \o <<":">> \o Pad(d.minute, 2)
        \o <<":">> \o Pad(d.second, 2)

\* python_object.strftime("%Y-%m-%d %H:%M:%S:%f")
strftime(d) ==
    Pad(d.year, 4) \o <<"-">> \o Pad(d.month, 2) \o <<"-">> \o Pad(d.day, 2)
        \o <<" ">> \o Pad(d.hour, 2) \o <<":">> \o Pad(d.minute, 2)
        \o <<":">> \o Pad(d.second, 2) \o <<":">> \o Pad(d.microsecond, 6)

\* datetime.strptime(str, "%Y-%m-%d %H:%M:%S:%f"); ValueError when the string
\* does not match the format
strptime(str) ==
    LET halves == Split(str, " ")
        date == Split(halves[1], "-")
        time == Split(halves[2], ":")
        \* a field of at most w digits
        IsField(field, w) == IsInt(field) /\ Len(field) <= w
        \* %f: one to six digits, read as a decimal fraction of a second
        RECURSIVE Fraction(_)
        Fraction(field) == IF Len(field) >= 6 THEN IntOf(field)
                           ELSE Fraction(field \o <<"0">>)
    IN IF /\ Len(halves) = 2 /\ Len(date) = 3 /\ Len(time) = 4
          /\ IsField(date[1], 4) /\ Len(date[1]) = 4
          /\ IsField(date[2], 2) /\ IsField(date[3], 2)
          /\ IsField(time[1], 2) /\ IsField(time[2], 2) /\ IsField(time[3], 2)
          /\ IsField(time[4], 6)
       THEN PyDateTime([year |-> IntOf(date[1]), month |-> IntOf(date[2]),
                        day |-> IntOf(date[3]), hour |-> IntOf(time[1]),
                        minute |-> IntOf(time[2]), second |-> IntOf(time[3]),
                        microsecond |-> Fraction(time[4])])
       ELSE PyError("ValueError")

\* MachineRegistryLogger.__toJson, json.dump's default= for a datetime
toJson(python_object) ==
    PyDict([k \in {"__class__", "__value__"} |->
               IF k = "__class__" THEN PyStr(<<"datetime.datetime">>)
               ELSE PyStr(strftime(python_object.v))])

\* MachineRegistryLogger.__fromJson, json.load's object_hook= for a dict
fromJson(json_object) ==
    IF "__class__" \in DOMAIN json_object.v
    THEN IF json_object.v["__class__"] = PyStr(<<"datetime.datetime">>)
         THEN IF "__value__" \in DOMAIN json_object.v
              THEN strptime(json_object.v["__value__"].v)
              ELSE PyError("KeyError")
         ELSE PyError("NotImplementedError")
    ELSE json_object

\* json.dump(machineRegistry, file_, default=cls.__toJson): the JSON value
RECURSIVE Encode(_)
Encode(x) ==
    CASE x.t = "None" -> JNull
      [] x.t = "str" -> JString(x.v)
      [] x.t = "list" -> JArray([i \in 1..Len(x.v) |-> Encode(x.v[i])])
      [] x.t = "dict" -> JObject([k \in DOMAIN x.v |-> Encode(x.v[k])])
      [] x.t = "datetime" -> Encode(toJson(x))

\* json.load(file_, object_hook=cls.__fromJson): the Python value, the hook
\* being applied to every JSON object once its members are decoded; an
\* exception raised for a member leaves the decoding
RECURSIVE Decode(_)
Decode(y) ==
    LET Failed(members) == {k \in DOMAIN members : members[k].t = "error"}
        Failure(members) == members[CHOOSE k \in Failed(members) : TRUE]
    IN CASE y.j = "null" -> PyNone
         [] y.j = "string" -> PyStr(y.v)
         [] y.j = "array" ->
               LET items == [i \in 1..Len(y.v) |-> Decode(y.v[i])]
               IN IF Failed(items) # {} THEN Failure(items) ELSE PyList(items)
         [] y.j = "object" ->
               LET members == [k \in DOMAIN y.v |-> Decode(y.v[k])]
               IN IF Failed(members) # {} THEN Failure(members)
                  ELSE fromJson(PyDict(members))

\* what a snapshot file may be: absent, not JSON, or a JSON text
NoFile == [f |-> "missing"]

Garbage == [f |-> "garbage"]

JsonFile(tree) == [f |-> "json", tree |-> tree]

\* with open(name, "r") as file_: json.load(file_, object_hook=...)
ReadFile(file) ==
    CASE file.f = "missing" -> PyError("IOError")
      [] file.f = "garbage" -> PyError("ValueError")
      [] file.f = "json" -> Decode(file.tree)

\* only a missing file is expected
Caught_IOErrorOnly(state) == state.t = "error" /\ state.v = "IOError"

\* except (IOError, ValueError)
Caught(state) == state.t = "error" /\ state.v \in {"IOError", "ValueError"}

\* MachineRegistryLogger.load: [raised, state]; an exception that no except
\* clause catches leaves `state` unbound for the return of the finally clause
load(files) ==
    LET first == ReadFile(files.primary)
        second == ReadFile(files.backup)
    IN IF first.t # "error" THEN [raised |-> FALSE, state |-> first]
       ELSE IF ~Caught(first) THEN [raised |-> TRUE, state |-> PyNone]
       ELSE IF second.t # "error" THEN [raised |-> FALSE, state |-> second]
       ELSE IF ~Caught(second) THEN [raised |-> TRUE, state |-> PyNone]
       ELSE [raised |-> FALSE, state |-> PyDict(<<>>)]

Last(q) == q[Len(q)]

\* MachineRegistryLogger.dump: the files afterwards.  shutil.move raises
\* IOError when there is no primary file, and may raise it when there is one
\* (moveFails); then the text is written, or open(cls.__filename, "w") raises
\* IOError ("not opened"), or the write raises IOError part way ("truncated")
dump(files, machineRegistry, moveFails, outcome) ==
    LET moved == IF files.primary = NoFile \/ moveFails THEN files
                 ELSE [primary |-> NoFile, backup |-> files.primary]
    IN CASE outcome = "written" ->
                [moved EXCEPT !.primary = JsonFile(Encode(machineRegistry))]
         [] outcome = "not opened" -> moved
         [] outcome = "truncated" -> [moved EXCEPT !.primary = Garbage]

\* a machine record as updateMachineStatus and the adapter leave it
SnapshotMachine(status, d) ==
    PyDict([k \in {"status", "status_last_update", "state_change_history",
                   "slurm_slot_status"} |->
        CASE k = "status" -> PyStr(<<status>>)
          [] k = "status_last_update" -> PyDateTime(d)
          [] k = "state_change_history" ->
                PyList(<<PyDict([h \in {"old_status", "new_status", "timestamp"} |->
                            CASE h = "old_status" -> PyNone
                              [] h = "new_status" -> PyStr(<<status>>)
                              [] h = "timestamp" -> PyStr(strftime(d))])>>)
          [] k = "slurm_slot_status" ->
                PyList(<<PyList(<<PyStr(<<slurmStatusAllocated>>), PyNone>>)>>)])

\* the registries that are dumped: empty, or one machine with a status and
\* the moment of its last update
SnapshotRegistries ==
    LET dates ==
            {[year |-> 2017, month |-> 3, day |-> 5, hour |-> 7, minute |-> 8,
              second |-> 9, microsecond |-> 42],
             [year |-> 2017, month |-> 12, day |-> 31, hour |-> 23, minute |-> 59,
              second |-> 59, microsecond |-> 999999],
             [year |-> 2018, month |-> 1, day |-> 1, hour |-> 0, minute |-> 0,
              second |-> 0, microsecond |-> 500000]}
    IN {PyDict(<<>>)}
       \cup {PyDict([id \in {"m1"} |-> SnapshotMachine(status, d)]) :
                 status \in {statusBooting, statusWorking}, d \in dates}

\* a JSON file whose datetime value does not match the format, and one that
\* names a class the hook does not know
BadDateFile ==
    JsonFile(JObject([k \in {"__class__", "__value__"} |->
        IF k = "__class__" THEN JString(<<"datetime.datetime">>)
        ELSE JString(<<"2", "0", "1", "7">>)]))

ForeignFile ==
    JsonFile(JObject([k \in {"__class__", "__value__"} |->
        IF k = "__class__" THEN JString(<<"datetime.date">>)
        ELSE JString(<<"2", "0", "1", "7">>)]))

NotLoaded == [raised |-> FALSE, state |-> [t |-> "notloaded"]]

\* dump(machineRegistry); `dumped` is the registry of a dump whose write
\* succeeded while its file is as written, and None otherwise; `written` holds
\* the registries of the last two dumps whose write succeeded
Dump ==
    \E R \in SnapshotRegistries, moveFails \in BOOLEAN,
       outcome \in {"written", "not opened", "truncated"} :
        snapshot' = [files |-> dump(snapshot.files, R, moveFails, outcome),
                     dumped |-> IF outcome = "written" THEN R ELSE PyNone,
                     written |-> IF outcome # "written" THEN snapshot.written
                                 ELSE IF snapshot.written = <<>> THEN <<R>>
                                 ELSE <<Last(snapshot.written), R>>,
                     result |-> NotLoaded]

\* load()
Load == snapshot' = [snapshot EXCEPT !.result = load(snapshot.files)]

\* a file is lost or overwritten between two runs
Damage ==
    \E name \in {"primary", "backup"},
       file \in {NoFile, Garbage, BadDateFile, ForeignFile} :
        snapshot' = [files |-> [snapshot.files EXCEPT ![name] = file],
                     dumped |-> PyNone,
                     written |-> <<>>,
                     result |-> NotLoaded]

\* no snapshot has been written yet
LogInit ==
    snapshot = [files |-> [primary |-> NoFile, backup |-> NoFile],
                dumped |-> PyNone, written |-> <<>>, result |-> NotLoaded]

RegInit ==
    /\ machines = <<>>
    /\ events = <<>>
    /\ heard = <<>>
    /\ slurmDeadline = configSlurmDeadline
    /\ now = 0
    /\ ticks = 0
    /\ lastOp = Op("init", None, None)

vars == <<machines, events, now, ticks, lastOp, heard, slurmDeadline,
          broker, machineTypes, siteInfo, typeOrder, siteOrders, desired,
          arrayJob, reqAdapter, snapshot>>

Init == RegInit /\ BrokerIdle /\ ArrayIdle /\ ReqIdle /\ LogInit

Next ==
    \/ (\E id \in Ids : NewMachine(id)) /\ UNCHANGED <<brokerVars, reqVars, logVars>>
    \/ (\E id \in Ids : RemoveMachine(id)) /\ UNCHANGED <<brokerVars, reqVars, logVars>>
    \/ (\E id \in Ids, s \in ExternalStatuses : UpdateMachineStatus(id, s))
           /\ UNCHANGED <<brokerVars, reqVars, logVars>>
    \/ (\E site \in Sites : SiteSpawn(site)) /\ UNCHANGED <<brokerVars, reqVars, logVars>>
    \/ Manage /\ UNCHANGED <<brokerVars, reqVars, logVars>>
    \/ Tick /\ UNCHANGED <<brokerVars, reqVars, logVars>>

Spec == Init /\ [][Next]_vars

NextBroker ==
    \/ Decide /\ UNCHANGED <<machines, events, lastOp, heard, slurmDeadline, reqVars, logVars>>
    \/ NewDemand /\ UNCHANGED <<machines, events, lastOp, heard, slurmDeadline, reqVars, logVars>>
    \/ BrokerTick /\ UNCHANGED <<machines, events, lastOp, heard, slurmDeadline, reqVars, logVars>>

InitBroker == RegInit /\ BrokerInit /\ ArrayIdle /\ ReqIdle /\ LogInit

SpecBroker == InitBroker /\ [][NextBroker]_vars

\* get_job_array_count on the array strings of the queue
NextCount == CountArray /\ UNCHANGED <<regVars, brokerVars, reqAdapter, logVars>>

InitArray == RegInit /\ BrokerIdle /\ ArrayInit /\ ReqIdle /\ LogInit

SpecArray == InitArray /\ [][NextCount]_vars

\* the requirement adapter polling a queue
NextReq == Requirement /\ UNCHANGED <<regVars, brokerVars, arrayJob, logVars>>

InitReq == RegInit /\ BrokerIdle /\ ArrayIdle /\ ReqInit /\ LogInit

SpecReq == InitReq /\ [][NextReq]_vars

\* the snapshot files over the runs of the scheduler
NextLog ==
    \/ Dump /\ UNCHANGED <<regVars, brokerVars, reqVars>>
    \/ Load /\ UNCHANGED <<regVars, brokerVars, reqVars>>
    \/ Damage /\ UNCHANGED <<regVars, brokerVars, reqVars>>

SpecLog == Init /\ [][NextLog]_vars

(***************************************************************************)
(* A machine the batch system never lists, over days of wall-clock time.   *)
(***************************************************************************)
\* the clock advances until this many days have passed
MaxDays == 1

\* the machine whose host the node list never holds
StuckId == "m1"

\* the site adapter boots machine id at time t and reports it up, and the
\* adapter's onEvent moves it to integrating
Integrated(W, id, t) ==
    LET W1 == newMachine(W, id, t)
        W2 == [W1 EXCEPT !.machines[id].site = siteName,
                         !.machines[id].host_ip = HostIp[id]]
    IN updateMachineStatus(updateMachineStatus(W2, id, statusBooting, t),
                           id, statusUp, t)

\* the registry holds the stuck machine, alone, next to a record whose status
\* was never written, or next to a second integrating machine; slurm_deadline
\* is a minute or a day
StuckInit ==
    LET Alone == Integrated([machines |-> <<>>, events |-> <<>>, heard |-> <<>>],
                            StuckId, 0)
    IN /\ machines \in {Alone.machines,
                        newMachine(Alone, "m2", 0).machines,
                        Integrated(Alone, "m2", 0).machines}
       /\ slurmDeadline \in {1, 1440}
       /\ events = <<>>
       /\ heard = <<>>
       /\ now = 0
       /\ ticks = 0
       /\ lastOp = Op("init", None, None)

\* the node lists that do not hold the stuck machine
AbsentLists ==
    {l \in SlurmLists : /\ ~l.none
                        /\ getSlurmHostname(HostIp[StuckId]) \notin DOMAIN l.nodes}

\* one reconcile pass with such a node list
StuckManage ==
    \E slurm_machines \in AbsentLists :
        \E order \in Perms(DOMAIN getMachines(machines, siteName, None, None)) :
            LET W == manage(World, order, slurm_machines, now)
            IN /\ machines' = W.machines
               /\ events' = W.events
               /\ heard' = W.heard
               /\ lastOp' = Op("manage", None, None)
               /\ UNCHANGED <<now, ticks, slurmDeadline, brokerVars, reqVars, logVars>>

\* hours pass between two passes
DayTick ==
    \E d \in {30000, 43300} :
        /\ now <= MaxDays * DaySeconds
        /\ now' = now + d
        /\ ticks' = ticks + 1
        /\ lastOp' = Op("tick", None, None)
        /\ events' = <<>>
        /\ heard' = <<>>
        /\ UNCHANGED <<machines, slurmDeadline, brokerVars, reqVars, logVars>>

NextStuck == StuckManage \/ DayTick

InitStuck == StuckInit /\ BrokerIdle /\ ArrayIdle /\ ReqIdle /\ LogInit

SpecStuck == InitStuck /\ [][NextStuck]_vars

\* the scheduler keeps calling manage and the clock keeps running
SpecStuckFair == SpecStuck /\ WF_vars(StuckManage) /\ WF_vars(DayTick)

(***************************************************************************)
(* The reconcile pass over the whole life of the site's machines.          *)
(***************************************************************************)
\* the registry holds one or two machines of the site, integrating
InitPass ==
    LET One == Integrated([machines |-> <<>>, events |-> <<>>, heard |-> <<>>],
                          "m1", 0)
    IN /\ machines \in {One.machines, Integrated(One, "m2", 0).machines}
       /\ slurmDeadline = configSlurmDeadline
       /\ events = <<>>
       /\ heard = <<>>
       /\ now = 0
       /\ ticks = 0
       /\ lastOp = Op("init", None, None)
       /\ BrokerIdle /\ ArrayIdle /\ ReqIdle /\ LogInit

\* one reconcile pass; self.slurmList gives a node list or, from the caching
\* wrapper, None
Pass ==
    \E slurm_machines \in SlurmLists \cup {NoneList} :
        \E order \in Perms(DOMAIN getMachines(machines, siteName, None, None)) :
            LET W == manage(World, order, slurm_machines, now)
            IN /\ machines' = W.machines
               /\ events' = W.events
               /\ heard' = W.heard
               /\ lastOp' = Op("manage", None, slurm_machines)
               /\ UNCHANGED <<now, ticks, slurmDeadline, brokerVars, reqVars, logVars>>

\* a caller outside the adapter takes a working machine out of service, or
\* starts the shutdown of a machine that is pending disintegration
SiteWrite ==
    \E id \in DOMAIN machines :
        \E newStatus \in {statusPendingDisintegration, statusDisintegrating} :
            LET W == updateMachineStatus(World, id, newStatus, now)
            IN /\ \/ /\ machines[id].status = statusWorking
                     /\ newStatus = statusPendingDisintegration
                  \/ /\ machines[id].status = statusPendingDisintegration
                     /\ newStatus = statusDisintegrating
               /\ machines' = W.machines
               /\ events' = W.events
               /\ heard' = W.heard
               /\ lastOp' = Op("updateMachineStatus", id, newStatus)
               /\ UNCHANGED <<now, ticks, slurmDeadline, brokerVars, reqVars, logVars>>

NextPass ==
    \/ Pass
    \/ SiteWrite
    \/ Tick /\ UNCHANGED <<brokerVars, reqVars, logVars>>

SpecPass == InitPass /\ [][NextPass]_vars

(***************************************************************************)
(* Properties of the registry and of the adapter.                          *)
(***************************************************************************)
History(id) == machines[id].state_change_history

\* the deliveries of StatusChangedEvent for machine id, in order
StatusDeliveries(evs, id) ==
    LET Is(e) == e.evt.type = "StatusChangedEvent" /\ e.evt.id = id
    IN SelectSeq(evs, Is)

\* the registry never fails an operation: machines at the adapter's site have
\* a status and an address
SiteMachinesComplete ==
    \A id \in DOMAIN machines :
        machines[id].site = siteName =>
            machines[id].status # None /\ machines[id].host_ip # NoIp

\* C1: in every reachable registry state, a machine with a non-empty history
\* has the status that its last history entry names as new_status.
C1_StatusIsLastHistoryEntry ==
    \A id \in DOMAIN machines :
        History(id) # <<>> => Last(History(id)).new_status = machines[id].status

\* C1 witness: a reconcile pass has moved a machine that had a history before
C1_Witness ==
    /\ lastOp.op = "manage"
    /\ \E id \in DOMAIN machines :
        /\ Len(History(id)) >= 3
        /\ StatusDeliveries(events, id) # <<>>

\* C2: newMachine(id) with an id that is present is rejected: the registry is
\* left as it was and no NewMachineEvent is delivered.
C2_DuplicateNewMachineRejected ==
    [][\A id \in Ids :
        (id \in DOMAIN machines /\ NewMachine(id)) =>
            /\ machines' = machines
            /\ \A i \in 1..Len(events') : events'[i].evt.type # "NewMachineEvent"]_vars

\* what one operation appended to the history of machine id: the history
\* starts afresh when the operation created the record
Created(id) ==
    lastOp'.op \in {"newMachine", "siteSpawn"} /\ lastOp'.id = id

HistoryBefore(id) ==
    IF id \in DOMAIN machines /\ ~Created(id) THEN History(id) ELSE <<>>

Appended(id) ==
    SubSeq(machines'[id].state_change_history,
           Len(HistoryBefore(id)) + 1, Len(machines'[id].state_change_history))

\* C3: every updateMachineStatus(id, s) on a present machine, whoever calls it,
\* appends one history entry with old_status the status held before, the new
\* status and the time of the call, sets status_last_update to that time and
\* delivers one StatusChangedEvent(id, old, s), old being None on the first
\* transition; the listener reads the updated record.  A call from outside
\* appends exactly one entry with new_status = s and delivers exactly one
\* event for (id, old, s).
C3_UpdateAppendsOneEntryAndPublishes ==
    [][/\ \A id \in DOMAIN machines' :
            LET before == HistoryBefore(id)
                after == machines'[id].state_change_history
                added == Appended(id)
                evs == StatusDeliveries(events', id)
                Old(i) == IF i > 1 THEN added[i - 1].new_status
                          ELSE IF before = <<>> THEN None
                          ELSE Last(before).new_status
            IN /\ Len(after) >= Len(before)
               /\ SubSeq(after, 1, Len(before)) = before
               /\ Len(evs) = Len(added)
               /\ added # <<>> => machines'[id].status_last_update = now
               /\ \A i \in 1..Len(added) :
                    /\ DOMAIN added[i] =
                           {"old_status", "new_status", "timestamp", "time_diff"}
                    /\ added[i].old_status = Old(i)
                    /\ added[i].timestamp = StrOf(now)
                    /\ evs[i].evt =
                           StatusChangedEvent(id, Old(i), added[i].new_status)
                    /\ evs[i].seen.status = added[i].new_status
                    /\ evs[i].seen.status_last_update = now
                    /\ evs[i].seen.state_change_history =
                           before \o SubSeq(added, 1, i)
       /\ \A id \in DOMAIN machines, s \in ExternalStatuses :
            UpdateMachineStatus(id, s) =>
                LET old == machines[id].status
                    added == Appended(id)
                    evs == StatusDeliveries(events', id)
                IN /\ added # <<>>
                   /\ added[1].new_status = s
                   /\ Cardinality({i \in 1..Len(added) : added[i].new_status = s}) = 1
                   /\ Cardinality({i \in 1..Len(evs) :
                          evs[i].evt = StatusChangedEvent(id, old, s)}) = 1
                   /\ History(id) = <<>> => old = None
      ]_vars

\* C3 witness: updateMachineStatus(id, up) has run on a machine of the
\* adapter's site that had a history, the handler's nested call included
C3_Witness ==
    /\ lastOp.op = "updateMachineStatus"
    /\ lastOp.arg = statusUp
    /\ lastOp.id \in DOMAIN machines
    /\ Len(events) = 2
    /\ Len(History(lastOp.id)) = 3
    /\ now > 0

\* C4: for every history entry but the first of a machine, time_diff is the
\* entry's timestamp minus the timestamp of the entry before it.
C4_TimeDiffIsTimestampDelta ==
    \A id \in DOMAIN machines :
        \A i \in 2..Len(History(id)) :
            History(id)[i].time_diff =
                StrOf(History(id)[i].timestamp.str - History(id)[i - 1].timestamp.str)

\* C5: removeMachine(id) on a present machine leaves id out of getMachines(),
\* delivers exactly one MachineRemovedEvent(id) and changes no other record.
C5_RemoveDeletesOnlyThatMachine ==
    [][\A id \in Ids :
        (id \in DOMAIN machines /\ RemoveMachine(id)) =>
            /\ id \notin DOMAIN getMachines(machines', None, None, None)
            /\ LET Is(e) == e.evt = MachineRemovedEvent(id)
               IN Len(SelectSeq(events', Is)) = 1
            /\ DOMAIN machines' = DOMAIN machines \ {id}
            /\ \A o \in DOMAIN machines \ {id} : machines'[o] = machines[o]]_vars

\* C5 witness: a machine was removed while another machine of the same site,
\* with a history, stays
C5_Witness ==
    /\ lastOp.op = "removeMachine"
    /\ \E o \in DOMAIN machines :
        /\ machines[o].site = siteName
        /\ Len(History(o)) >= 2
    /\ Len(events) = 1

\* the lifecycle edges the Integration Adapter may take
FsmEdges ==
    {<<statusUp, statusIntegrating>>,
     <<statusIntegrating, statusWorking>>,
     <<statusIntegrating, statusDisintegrated>>,
     <<statusWorking, statusPendingDisintegration>>,
     <<statusPendingDisintegration, statusWorking>>,
     <<statusPendingDisintegration, statusDisintegrating>>,
     <<statusDisintegrating, statusDisintegrated>>}

\* the status changes of the last operation that the adapter performed: all
\* of a reconcile pass, and all but the caller's own of any other operation
AdapterChanges ==
    LET Is(e) == e.evt.type = "StatusChangedEvent"
        changes == SelectSeq(events, Is)
    IN IF lastOp.op = "manage" THEN changes
       ELSE IF changes = <<>> THEN <<>> ELSE Tail(changes)

\* C6: every status change the Integration Adapter performs, in a reconcile
\* pass or in its event handler, is an edge of the lifecycle FSM.
C6_AdapterChangesAreFsmEdges ==
    \A i \in 1..Len(AdapterChanges) :
        <<AdapterChanges[i].evt.oldStatus, AdapterChanges[i].evt.newStatus>>
            \in FsmEdges

\* C6 witness: one reconcile pass has taken a machine from
\* pending-disintegration through disintegrating to disintegrated
C6_Witness ==
    /\ lastOp.op = "manage"
    /\ Len(AdapterChanges) = 2
    /\ AdapterChanges[1].evt.oldStatus = statusPendingDisintegration
    /\ AdapterChanges[2].evt.newStatus = statusDisintegrated

\* C6: the handler's edge and the stuck-integrating edge are taken as well
C6_WitnessHandlerAndTimeout ==
    \/ lastOp.op = "updateMachineStatus" /\ Len(AdapterChanges) = 1
    \/ /\ lastOp.op = "manage"
       /\ \E i \in 1..Len(AdapterChanges) :
            AdapterChanges[i].evt.newStatus = statusDisintegrated
            /\ AdapterChanges[i].evt.oldStatus = statusIntegrating

\* C23: every listener receives StatusChangedEvent(id, old, up) before the
\* StatusChangedEvent(id, up, integrating) that the integration adapter's
\* handler causes: the events reach each listener in the order in which the
\* transitions occurred.
C23_EveryListenerHearsUpFirst ==
    \A i \in 1..Len(heard) :
        (/\ heard[i].evt.type = "StatusChangedEvent"
         /\ heard[i].evt.oldStatus = statusUp
         /\ heard[i].evt.newStatus = statusIntegrating) =>
            \E j \in 1..(i - 1) :
                /\ heard[j].to = heard[i].to
                /\ heard[j].evt.type = "StatusChangedEvent"
                /\ heard[j].evt.id = heard[i].evt.id
                /\ heard[j].evt.newStatus = statusUp

\* C24: when updateMachineStatus(id, up) returns, a machine of the adapter's
\* site is integrating, by one further history entry, and a machine of any
\* other site is up, with the caller's entry as its only new one; no machine
\* of the adapter's site is in status up between two operations.
C24_UpBecomesIntegratingAtSite ==
    [][/\ \A id \in DOMAIN machines :
            UpdateMachineStatus(id, statusUp) =>
                IF machines'[id].site = siteName
                THEN /\ machines'[id].status = statusIntegrating
                     /\ Len(Appended(id)) = 2
                     /\ Appended(id)[2].old_status = statusUp
                ELSE /\ machines'[id].status = statusUp
                     /\ Len(Appended(id)) = 1
                     /\ machines'[id] = StatusWrite(machines[id], statusUp, now)
       /\ \A id \in DOMAIN machines' :
            machines'[id].site = siteName => machines'[id].status # statusUp]_vars

\* updateMachineStatus(id, up) has returned for a booting machine of the
\* adapter's site, which is integrating, next to a machine of no site
C24_Witness ==
    /\ lastOp.op = "updateMachineStatus"
    /\ lastOp.arg = statusUp
    /\ lastOp.id \in DOMAIN machines
    /\ machines[lastOp.id].site = siteName
    /\ machines[lastOp.id].status = statusIntegrating
    /\ Last(History(lastOp.id)).old_status = statusUp
    /\ \E o \in DOMAIN machines : machines[o].site # siteName

\* the site's machines in the orders in which a pass may walk them
SiteOrders == Perms(DOMAIN getMachines(machines, siteName, None, None))

\* the step is a reconcile pass that read the node list L
PassRead(L) ==
    /\ lastOp'.op = "manage"
    /\ \E order \in SiteOrders : manage(World, order, L, now).machines = machines'

\* machine id is at the adapter's site, in status s, and the node list L holds
\* (or does not hold) its host name
SiteMachineIn(id, s) ==
    /\ id \in DOMAIN machines
    /\ machines[id].site = siteName
    /\ machines[id].status = s

Listed(id, L) == ~L.none /\ getSlurmHostname(machines[id].host_ip) \in DOMAIN L.nodes

SlotsOf(id, L) == L.nodes[getSlurmHostname(machines[id].host_ip)]

AllocatedSlots(slots) == {i \in 1..Len(slots) : slots[i][1] = slurmStatusAllocated}

\* C12: a machine in status integrating whose host name is a key of the node
\* list is, after one reconcile pass, working, with slot_status equal to the
\* node's slot list, machine_cores equal to the length of that list and
\* machine_load equal to the fraction of allocated slots.
C12_IntegratingBecomesWorking ==
    [][\A id \in Ids :
          SiteMachineIn(id, statusIntegrating) =>
              \A L \in SlurmLists :
                  (Listed(id, L) /\ PassRead(L)) =>
                      /\ machines'[id].status = statusWorking
                      /\ machines'[id].slurm_slot_status = SlotsOf(id, L)
                      /\ machines'[id].machine_cores = Len(SlotsOf(id, L))
                      /\ machines'[id].machine_load[1] * Len(SlotsOf(id, L))
                           = Cardinality(AllocatedSlots(SlotsOf(id, L)))
                               * machines'[id].machine_load[2]]_vars

\* a reconcile pass has taken a machine from integrating to working; the node
\* has two slots, one of them allocated, and the load is one half
C12_Witness ==
    /\ lastOp.op = "manage"
    /\ \E id \in DOMAIN machines :
        /\ machines[id].status = statusWorking
        /\ Last(History(id)).old_status = statusIntegrating
        /\ machines[id].machine_cores = 2
        /\ machines[id].slurm_slot_status[1][1] = slurmStatusAllocated
        /\ machines[id].slurm_slot_status[2][1] = slurmStatusIdle
        /\ machines[id].machine_load = <<1, 2>>

DrainSlots(slots) ==
    {i \in 1..Len(slots) : slots[i][1] \in {slurmStatusDraining, slurmStatusDrained}}

\* C13: the drain sequence takes one transition per reconcile pass: a working
\* machine whose listed slots include a draining slot is
\* pending-disintegration after the pass; a pending-disintegration machine
\* absent from the node list is disintegrating, not yet disintegrated, after
\* the pass; a disintegrating machine is disintegrated after the pass.
C13_DrainTakesOneTransitionPerPass ==
    [][\A id \in Ids : \A L \in SlurmLists :
          (~L.none /\ PassRead(L)) =>
              /\ (/\ SiteMachineIn(id, statusWorking)
                  /\ Listed(id, L)
                  /\ DrainSlots(SlotsOf(id, L)) # {})
                     => machines'[id].status = statusPendingDisintegration
              /\ (SiteMachineIn(id, statusPendingDisintegration) /\ ~Listed(id, L))
                     => machines'[id].status = statusDisintegrating
              /\ SiteMachineIn(id, statusDisintegrating)
                     => machines'[id].status = statusDisintegrated]_vars

\* C22: a reconcile pass calls calcMachineLoad on every integrating or
\* working machine of the site that the node list holds; afterwards
\* machine_load is the number of allocated slots over the number of slots,
\* hence between 0 and 1, 0 when no slot is allocated and 1 when all are.
C22_LoadIsAllocatedFraction ==
    [][\A id \in Ids : \A L \in SlurmLists :
          (/\ \/ SiteMachineIn(id, statusIntegrating)
              \/ SiteMachineIn(id, statusWorking)
           /\ Listed(id, L)
           /\ SlotsOf(id, L) # <<>>
           /\ PassRead(L)) =>
              LET frac == machines'[id].machine_load
                  allocated == Cardinality(AllocatedSlots(SlotsOf(id, L)))
                  slots == Len(SlotsOf(id, L))
              IN /\ frac[2] > 0
                 /\ frac[1] * slots = allocated * frac[2]
                 /\ 0 <= frac[1] /\ frac[1] <= frac[2]
                 /\ allocated = 0 => frac[1] = 0
                 /\ allocated = slots => frac[1] = frac[2]]_vars

\* a pass has seen a working machine with two idle slots, and its load is 0
C22_Witness ==
    /\ lastOp.op = "manage"
    /\ \E id \in DOMAIN machines :
        /\ machines[id].status = statusWorking
        /\ Len(machines[id].slurm_slot_status) = 2
        /\ AllocatedSlots(machines[id].slurm_slot_status) = {}
        /\ machines[id].machine_load = <<0, 1>>

\* C31: an integrating machine whose host the node list holds and whose time
\* since the last status change already exceeds slurm_deadline is working
\* after the pass, never disintegrated.
C31_ObservationBeatsTimeout ==
    [][\A id \in Ids : \A L \in SlurmLists :
          (/\ SiteMachineIn(id, statusIntegrating)
           /\ Listed(id, L)
           /\ calcLastStateChange(machines[id], now) > slurm_timeout
           /\ PassRead(L)) =>
              /\ machines'[id].status = statusWorking
              /\ \A i \in 1..Len(machines'[id].state_change_history) :
                     machines'[id].state_change_history[i].new_status
                         # statusDisintegrated]_vars

\* a pass has taken a machine from integrating to working after the deadline
\* had passed
C31_Witness ==
    /\ lastOp.op = "manage"
    /\ \E id \in DOMAIN machines :
        /\ machines[id].status = statusWorking
        /\ Last(History(id)).old_status = statusIntegrating
        /\ Last(History(id)).time_diff = StrOf(61)
        /\ 61 > slurm_timeout

C33_SecondPassChangesNothing ==
    [][(/\ lastOp.op = "manage"
        /\ lastOp'.op = "manage"
        /\ lastOp'.arg = lastOp.arg) =>
           /\ DOMAIN machines' = DOMAIN machines
           /\ \A id \in DOMAIN machines :
                 /\ machines'[id].status = machines[id].status
                 /\ machines'[id].state_change_history
                        = machines[id].state_change_history]_vars

\* a pass has taken a machine from pending-disintegration through
\* disintegrating to disintegrated, and the same pass again changes nothing
C33_Witness ==
    /\ lastOp.op = "manage"
    /\ \E id \in DOMAIN machines :
        /\ machines[id].status = statusDisintegrated
        /\ Len(History(id)) >= 2
        /\ History(id)[Len(History(id)) - 1].old_status = statusPendingDisintegration
        /\ History(id)[Len(History(id)) - 1].timestamp = Last(History(id)).timestamp
    /\ \A order \in SiteOrders :
           manage(World, order, lastOp.arg, now).machines = machines

\* C34: a reconcile pass leaves a working machine whose host the node list
\* does not hold as it was: status working, and slot_status, machine_load,
\* status_last_update and history unchanged.
C34_AbsentWorkingMachineUntouched ==
    [][\A id \in Ids :
          (/\ SiteMachineIn(id, statusWorking)
           /\ lastOp'.op = "manage"
           /\ ~Listed(id, lastOp'.arg)) =>
              /\ machines'[id].status = statusWorking
              /\ machines'[id].slurm_slot_status = machines[id].slurm_slot_status
              /\ machines'[id].machine_load = machines[id].machine_load
              /\ machines'[id].status_last_update = machines[id].status_last_update
              /\ machines'[id].state_change_history
                     = machines[id].state_change_history]_vars

\* a pass with a node list that holds one machine's host and not the other's
\* has made the first working and left the second, working since time 0, with
\* its two slots
C34_Witness ==
    /\ lastOp.op = "manage"
    /\ now > 0
    /\ \E id \in DOMAIN machines : \E other \in DOMAIN machines :
        /\ machines[id].status = statusWorking
        /\ ~Listed(id, lastOp.arg)
        /\ Len(machines[id].slurm_slot_status) = 2
        /\ Last(History(id)).timestamp = StrOf(0)
        /\ Listed(other, lastOp.arg)
        /\ machines[other].status = statusWorking
        /\ Last(History(other)).timestamp = StrOf(now)

DrainingReports ==
    {<<NodeList(slurmList(obs)), h>> :
        <<obs, h>> \in {<<o, x>> \in Observations \X Hostnames :
                          /\ ~o.jobsFail /\ ~o.nodesFail
                          /\ [partition |-> configSlurmPartition, nodes |-> x] \in o.jobs
                          /\ "DOWN" \notin o.nodes[x].state
                          /\ o.nodes[x].state \cap {"DRAINING", "DRAINED"} # {}}}

\* C25: a working machine whose node is reported, not DOWN, with a state
\* containing DRAINING or DRAINED has a draining or drained slot in the node
\* list slurmList builds, and the reconcile pass that reads the list takes
\* the machine to pending-disintegration.
C25_DrainingNodeGivesDrainingSlot ==
    [][\A id \in Ids : \A r \in DrainingReports :
          (/\ SiteMachineIn(id, statusWorking)
           /\ getSlurmHostname(machines[id].host_ip) = r[2]
           /\ PassRead(r[1])) =>
              /\ Listed(id, r[1])
              /\ DrainSlots(SlotsOf(id, r[1])) # {}
              /\ machines'[id].status = statusPendingDisintegration]_vars

\* what self.slurmList gives in the cycles in which the queue fetch or the
\* node fetch fails
FailedFetchLists ==
    {NodeList(slurmList(obs)) :
        obs \in {o \in Observations : o.jobsFail \/ o.nodesFail}}

\* C26: a reconcile pass of a cycle in which the queue fetch or the node fetch
\* behind slurmList fails changes no machine's status; in particular a
\* pending-disintegration machine stays pending-disintegration.
C26_FailedFetchChangesNoStatus ==
    [][\A L \in FailedFetchLists :
          PassRead(L) =>
              \A id \in DOMAIN machines :
                  /\ id \in DOMAIN machines'
                  /\ machines'[id].status = machines[id].status]_vars

(***************************************************************************)
(* Properties of the broker.                                               *)
(***************************************************************************)
\* decide has returned orders for the demand of this cycle
Decided == siteOrders.called /\ ~siteOrders.raised

Orders == siteOrders.siteOrders

Demand == siteOrders.demand

\* the sites whose order holds an entry for the type
EntrySites(m) == {s \in DOMAIN Orders : m \in DOMAIN Orders[s]}

\* the configured sites that support the type
Supporting(m) ==
    {i \in 1..Len(siteInfo) : m \in siteInfo[i].supportedMachineTypes}

SiteNamed(s) == CHOOSE i \in 1..Len(siteInfo) : siteInfo[i].siteName = s

SignedDelta(m) == Delta(Demand[m], broker.maxInstances)

RECURSIVE SumOver(_, _)
SumOver(f, S) ==
    IF S = {} THEN 0
    ELSE LET x == CHOOSE y \in S : TRUE
         IN f[x] + SumOver(f, S \ {x})

OrderSum ==
    SumOver([s \in DOMAIN Orders |-> SumOver(Orders[s], DOMAIN Orders[s])],
            DOMAIN Orders)

DeltaSum == SumOver([m \in DOMAIN Demand |-> SignedDelta(m)], DOMAIN Demand)

\* C7: when decide returns, every type with a positive delta
\* min(max_instances - actual, required - actual) that some site supports has
\* exactly one entry in the orders, on a site of the lowest cost among the
\* sites supporting it, and the entry's value is the whole delta.
C7_GrowOrderOnCheapestSite ==
    Decided =>
        \A m \in DOMAIN Demand :
            (SignedDelta(m) > 0 /\ Supporting(m) # {}) =>
                \E s \in EntrySites(m) :
                    /\ EntrySites(m) = {s}
                    /\ Orders[s][m] = SignedDelta(m)
                    /\ SiteNamed(s) \in Supporting(m)
                    /\ \A i \in Supporting(m) :
                           siteInfo[SiteNamed(s)].cost <= siteInfo[i].cost

\* a growing type, capped by max_instances, with supporting sites of different
\* cost listed expensive first, next to a second type, has its order
C7_Witness ==
    /\ Decided
    /\ Cardinality(DOMAIN Demand) = 2
    /\ \E m \in DOMAIN Demand :
           /\ SignedDelta(m) > 0
           /\ SignedDelta(m) < Demand[m].required - Demand[m].actual
           /\ \E i, j \in Supporting(m) : i < j /\ siteInfo[i].cost > siteInfo[j].cost
           /\ EntrySites(m) # {}

\* C8: with shutdown_delay = 0, when decide returns, every type with
\* required < actual that some site supports has its negative delta in the
\* orders on a site of the highest cost among the sites supporting it.
C8_ShrinkOrderOnMostExpensiveSite ==
    (Decided /\ broker.shutdownDelay = 0) =>
        \A m \in DOMAIN Demand :
            (/\ Demand[m].required # NoRequired
             /\ Demand[m].required < Demand[m].actual
             /\ Supporting(m) # {}) =>
                \E s \in EntrySites(m) :
                    /\ Orders[s][m] = SignedDelta(m)
                    /\ SiteNamed(s) \in Supporting(m)
                    /\ \A i \in Supporting(m) :
                           siteInfo[SiteNamed(s)].cost >= siteInfo[i].cost

C10_OrdersSumToDeltas ==
    (/\ Decided
     /\ broker.shutdownDelay = 0
     /\ \A m \in DOMAIN Demand : Demand[m].required # NoRequired
     /\ \A m \in DOMAIN Demand : SignedDelta(m) # 0 => Supporting(m) # {}) =>
        OrderSum = DeltaSum

\* a step in which decide is called and returns
DecideReturns == siteOrders = NoOrders /\ siteOrders'.called /\ ~siteOrders'.raised

\* the type's required is set, its delta is negative and some site supports
\* the type
Shrinking(m) ==
    /\ machineTypes[m].required # NoRequired
    /\ Delta(machineTypes[m], broker.maxInstances) < 0
    /\ Supporting(m) # {}

\* the order returned by the step holds the type's negative delta on a site
\* of the highest cost among the sites supporting the type
ShrinkOrdered(m) ==
    \E s \in EntrySites(m)' :
        /\ Orders'[s][m] = Delta(machineTypes[m], broker.maxInstances)
        /\ SiteNamed(s) \in Supporting(m)
        /\ \A i \in Supporting(m) : siteInfo[SiteNamed(s)].cost >= siteInfo[i].cost

\* C11: with shutdown_delay > 0, a decide call for a type with a negative
\* delta that some site supports emits no order for the type and arms the
\* timer when no timer is armed; emits no order while
\* now - armed_at <= shutdown_delay; and emits the negative delta on the most
\* expensive supporting site once now - armed_at > shutdown_delay.
C11_ShutdownDelayed ==
    [][(DecideReturns /\ broker.shutdownDelay > 0) =>
          \A m \in DOMAIN machineTypes :
              Shrinking(m) =>
                  IF broker.delayedShutdownTime = NoTime
                  THEN /\ EntrySites(m)' = {}
                       /\ broker'.delayedShutdownTime = now
                  ELSE IF now - broker.delayedShutdownTime <= broker.shutdownDelay
                  THEN EntrySites(m)' = {}
                  ELSE ShrinkOrdered(m)]_vars

\* C36: with shutdown_delay > 0, decide emits a shutdown order for a type only
\* when every decide call of more than shutdown_delay seconds has wanted that
\* type shrunk; a timer armed for another type, or left armed by an earlier
\* episode, does not bring the order forward.
C36_ShutdownDelayedPerType ==
    (Decided /\ broker.shutdownDelay > 0) =>
        \A s \in DOMAIN Orders : \A m \in DOMAIN Orders[s] :
            Orders[s][m] < 0 =>
                /\ desired[m] # NoTime
                /\ now - desired[m] > broker.shutdownDelay

\* the entries of the orders for machine type m, site by site
OrdersFor(orders, m) ==
    [s \in {x \in DOMAIN orders : m \in DOMAIN orders[x]} |-> orders[s][m]]

\* C37: with shutdown_delay = 0 the orders decide returns for a machine type
\* are the orders it returns when the demand holds that type alone: the other
\* types of the demand, and the order in which the types are walked, do not
\* change them.
C37_OrdersOfATypeIgnoreOtherTypes ==
    (Decided /\ broker.shutdownDelay = 0) =>
        \A m \in DOMAIN Demand :
            OrdersFor(Orders, m) =
                OrdersFor(decide(broker, [x \in {m} |-> Demand[m]], siteInfo,
                                 <<m>>, now).siteOrders, m)

\* C38: every entry of the orders decide returns is non-zero and stands under
\* a site that supports its machine type; a type no site supports has no
\* entry, and decide returns all the same.
C38_OrdersAreWellFormed ==
    siteOrders.called =>
        /\ \A s \in DOMAIN Orders : \A m \in DOMAIN Orders[s] :
               /\ Orders[s][m] # 0
               /\ \E i \in 1..Len(siteInfo) :
                      /\ siteInfo[i].siteName = s
                      /\ m \in siteInfo[i].supportedMachineTypes
        /\ \A m \in DOMAIN Demand :
               (\A i \in 1..Len(siteInfo) : m \notin siteInfo[i].supportedMachineTypes)
                   => /\ ~siteOrders.raised
                      /\ \A s \in DOMAIN Orders : m \notin DOMAIN Orders[s]

\* decide has returned a spawn order for one type while the demand holds
\* another type, wanted too, that no site supports
C38_Witness ==
    /\ Decided
    /\ \E m \in DOMAIN Demand : \E u \in DOMAIN Demand :
        /\ \E s \in DOMAIN Orders : m \in DOMAIN Orders[s] /\ Orders[s][m] > 0
        /\ Demand[u].required # NoRequired
        /\ Demand[u].required > Demand[u].actual
        /\ \A i \in 1..Len(siteInfo) : u \notin siteInfo[i].supportedMachineTypes

(***************************************************************************)
(* Properties of the requirement adapter.                                  *)
(***************************************************************************)
\* a piece of an array string as the specification reads it: a range a-b or
\* a single integer
IsRange(piece) ==
    LET parts == Split(piece, "-")
    IN Len(parts) = 2 /\ IsInt(parts[1]) /\ IsInt(parts[2])

RECURSIVE PiecesCount(_)
PiecesCount(pieces) ==
    IF pieces = <<>> THEN 0
    ELSE LET parts == Split(Head(pieces), "-")
         IN (IF IsRange(Head(pieces)) THEN IntOf(parts[2]) - IntOf(parts[1]) + 1
             ELSE 1)
            + PiecesCount(Tail(pieces))

WellFormedList(str) ==
    \A i \in 1..Len(Split(str, ",")) :
        LET piece == Split(str, ",")[i] IN IsRange(piece) \/ IsInt(piece)

\* the multiplicity of an array string as the specification defines it, for
\* None, for a list of ranges and integers, and for such a list with %k
WellFormed(str) ==
    \/ str = NoTaskStr
    \/ WellFormedList(str)
    \/ /\ Len(Split(str, "%")) = 2
       /\ WellFormedList(Split(str, "%")[1])
       /\ IsInt(Split(str, "%")[2])

Multiplicity(str) ==
    IF str = NoTaskStr THEN 1
    ELSE IF Contains(str, "%") THEN IntOf(Split(str, "%")[2])
    ELSE PiecesCount(Split(str, ","))

\* C14: get_job_array_count gives 1 for None, k for a string with %k, and
\* otherwise the sum over the comma-separated pieces in which a range a-b
\* counts b-a+1 and a bare integer counts 1 whatever its value.
C14_ArrayCountIsMultiplicity ==
    (arrayJob.called /\ WellFormed(arrayJob.str)) =>
        /\ ~arrayJob.count.raised
        /\ arrayJob.count.value = Multiplicity(arrayJob.str)

\* the jobs of the configured partition
PartitionJobs ==
    SelectSeq(reqAdapter.queue, LAMBDA v : v.partition = configSlurmPartition)

\* the call fetched the queue and returned
Fetched == reqAdapter.called /\ ~reqAdapter.fetchFailed /\ ~reqAdapter.raised

\* the CPUs a job counts for: pn_min_cpus x multiplicity when pending,
\* pn_min_cpus when running, nothing with reason Dependency or
\* PartitionTimeLimit, when cancelled or in an unknown state
CountedCpus(job) ==
    IF job.state_reason \cap {"Dependency", "PartitionTimeLimit"} # {} THEN 0
    ELSE IF "PENDING" \in job.job_state
    THEN job.pn_min_cpus * Multiplicity(job.array_task_str)
    ELSE IF "RUNNING" \in job.job_state THEN job.pn_min_cpus
    ELSE 0

RECURSIVE CountedCpusOf(_)
CountedCpusOf(jobs) ==
    IF jobs = <<>> THEN 0 ELSE CountedCpus(Head(jobs)) + CountedCpusOf(Tail(jobs))

Ceil(a, b) == (a + b - 1) \div b

Abs(n) == IF n < 0 THEN 0 - n ELSE n

\* C15: when the fetch succeeds and the partition has jobs, the absolute
\* value of the requirement is ceil(C / cores), C being the counted CPUs of the
\* partition's jobs.
C15_RequirementMagnitude ==
    (Fetched /\ PartitionJobs # <<>>) =>
        /\ ~reqAdapter.result.none
        /\ Abs(reqAdapter.result.value)
             = Ceil(CountedCpusOf(PartitionJobs), reqAdapter.cores)

\* C16 as stated: a requirement that is neither None nor zero is a negative
\* integer.
C16_RequirementIsNegative ==
    (Fetched /\ ~reqAdapter.result.none /\ reqAdapter.result.value # 0) =>
        reqAdapter.result.value < 0

\* C16 as amended: a requirement that is neither None nor zero is a positive
\* integer, the number of machines needed.
C16_RequirementIsPositive ==
    (Fetched /\ ~reqAdapter.result.none /\ reqAdapter.result.value # 0) =>
        reqAdapter.result.value > 0

\* three CPUs are wanted on machines of two cores: two machines
C16_Witness ==
    /\ Fetched
    /\ reqAdapter.cores = 2
    /\ RequiredCpus(PartitionJobs, 0).value = 3
    /\ reqAdapter.result = Machines(2)

C18_NoneOnlyOnFailedFetch ==
    Fetched =>
        /\ ~reqAdapter.result.none
        /\ PartitionJobs = <<>> => reqAdapter.result.value = 0

\* the machines running before decide, and the machines its orders spawn
ActualTotal == SumOver([m \in DOMAIN Demand |-> Demand[m].actual], DOMAIN Demand)

SpawnTotal ==
    SumOver([s \in DOMAIN Orders |->
                SumOver([m \in DOMAIN Orders[s] |->
                            IF Orders[s][m] > 0 THEN Orders[s][m] ELSE 0],
                        DOMAIN Orders[s])],
            DOMAIN Orders)

\* C28: when the machines running, over all types, are at most max_instances
\* before decide, they are still at most max_instances once the spawn orders
\* decide returns are carried out.
C28_SpawnOrdersRespectGlobalCap ==
    (Decided /\ ActualTotal <= broker.maxInstances) =>
        ActualTotal + SpawnTotal <= broker.maxInstances

\* ---- registry snapshot ----

Loaded == snapshot.result # NotLoaded

Unparsable(file) == file \in {NoFile, Garbage, BadDateFile}

\* the file holds the text that dump writes for some registry
Readable(file) == \E R \in SnapshotRegistries : file = JsonFile(Encode(R))

ContentOf(file) == CHOOSE R \in SnapshotRegistries : file = JsonFile(Encode(R))

\* C20: load does not raise when the primary file is missing or unparsable
\* and the backup is readable, missing or unparsable: it returns the content
\* of a readable backup and the empty registry otherwise.
C20_LoadFallsBack ==
    (Loaded /\ Unparsable(snapshot.files.primary)) =>
        /\ Readable(snapshot.files.backup) =>
              /\ ~snapshot.result.raised
              /\ snapshot.result.state = ContentOf(snapshot.files.backup)
        /\ Unparsable(snapshot.files.backup) =>
              /\ ~snapshot.result.raised
              /\ snapshot.result.state = PyDict(<<>>)

\* a truncated primary file next to the backup of a registry with a machine
C20_Witness ==
    /\ Loaded
    /\ snapshot.files.primary = Garbage
    /\ Readable(snapshot.files.backup)
    /\ DOMAIN ContentOf(snapshot.files.backup).v # {}
    /\ snapshot.result.state = ContentOf(snapshot.files.backup)

\* C21: a load whose primary file names an unknown __class__ does not end
\* with an error: it returns the content of a readable backup, and the empty
\* registry when the backup is missing or unparsable.
C21_UnknownClassFallsBack ==
    (Loaded /\ snapshot.files.primary = ForeignFile) =>
        /\ ~snapshot.result.raised
        /\ Readable(snapshot.files.backup) =>
              snapshot.result.state = ContentOf(snapshot.files.backup)
        /\ Unparsable(snapshot.files.backup) =>
              snapshot.result.state = PyDict(<<>>)

\* C27: once a dump has written its snapshot, a load after any further dumps,
\* whichever of their moves and writes fail, returns the registry of the last
\* or of the last but one dump that wrote its snapshot.
C27_LoadReturnsAWrittenSnapshot ==
    (Loaded /\ snapshot.written # <<>>) =>
        /\ ~snapshot.result.raised
        /\ \E i \in 1..Len(snapshot.written) :
               snapshot.result.state = snapshot.written[i]

(***************************************************************************)
(* Properties of the time since the last status change.                    *)
(***************************************************************************)
\* C29: calcLastStateChange(id) is the whole wall-clock difference, in
\* seconds, between now and the machine's status_last_update, also after a
\* day or more, and 0 when status_last_update was never set.
C29_FullWallClockDifference ==
    \A id \in DOMAIN machines :
        calcLastStateChange(machines[id], now) =
            IF machines[id].status_last_update = NoTime THEN 0
            ELSE now - machines[id].status_last_update

====
